---- MODULE Spec2Model ----
(***************************************************************************)
(* Verification model of the request orchestration core of the agent       *)
(* server: the in-memory SessionManager (services/session_manager.py),     *)
(* the KMConnectorTool (tools/km_connector.py) with its two storages       *)
(* (services/km_connection_storage.py and the SessionKMConnectionAdapter   *)
(* of routers/agents.py) and the AgentManager singleton that chat requests *)
(* share (agent_manager.py, routers/agents.py).                            *)
(*                                                                         *)
(* The specifications of the module:                                       *)
(*   Spec         threads creating and looking up sessions, and the reaper *)
(*   SpecSub      a caller working on the collections a session owns       *)
(*   SpecRace     two threads working on the collections of one session    *)
(*   SpecReaper   the cleanup task started, running and cancelled          *)
(*   SpecKM       one KMConnectorTool answering search_and_store calls     *)
(*   SpecChat     two chat requests served concurrently by the manager     *)
(*   SpecResults  the result set of _query_connection                      *)
(*   SpecContext  get_km_context                                           *)
(*   SpecProcess  one process_query call                                   *)
(*   SpecAgent    two requests on one OpenAIAgent or EndpointAgent         *)
(*   SpecTracker  a thread calling the ProgressTracker                     *)
(***************************************************************************)
EXTENDS Integers, Sequences, FiniteSets, TLC

(***************************************************************************)
(* Bounds of the model.                                                    *)
(***************************************************************************)
MaxTime == 2
MaxConv == 2
MaxSearches == 2
MaxEdits == 3
MaxDist == 3
MaxDocs == 2
MaxN == 2
MaxResults == 2

\* Time is counted in ticks of SESSION_TTL_HOURS (24) hours, so that the
\* timedelta kept in SessionManager._ttl is one tick.
ttl == 1

NoneId == 0
NoneStr == "None"
GenBase == 10

Threads == {1, 2}
SessionIds == {1, 2}
ItemIds == {1}
Callers == {1}
CreatedIds == {1}

\* Knowledge connections are numbered in the order they are created; UnknownId
\* is an id no storage holds.
KMIds == {1, 2}
UnknownId == 3

\* Chat requests; request r comes with the cookie of session r.
Requests == {1, 2}
NoRequest == [enable_web_search |-> FALSE, enable_km_search |-> FALSE]

\* None, where the code expects a list of ids, a connection, a client or the
\* dictionary a search returned.
NoIds == <<NoneId>>
NoConnection == [id |-> NoneId]
NoClient == [api_key |-> NoneStr]
NoOutput == [success |-> NoneStr]

VARIABLES
    clock,          \* datetime.utcnow(), in ticks
    sessions,       \* SessionManager._sessions: session id -> SessionState object
    heap,           \* the SessionState objects that are still referenced
    lock,           \* SessionManager._lock: the thread holding it, or NoneId
    nextConv,       \* number of uuid4 values drawn so far
    pc,             \* position of each thread inside the method it runs
    call,           \* the method a thread runs (or ran last) and its arguments
    ref,            \* the SessionState object a thread holds in `session`
    ret,            \* the value the last call of a thread returned
    reaper_pc,      \* position of _cleanup_loop
    reaper_now,     \* the local `now` of _cleanup_expired
    reaper_expired, \* the local `expired` of the last _cleanup_expired
    km_kind,        \* the storage behind KMConnectorTool.connection_storage
    km_store,       \* the connections that storage holds: id -> connection
    km_clients,     \* KMConnectorTool._clients: id -> cached KMServerClient
    km_pc,          \* position inside search_and_store
    km_ids,         \* its argument connection_ids
    km_conns,       \* its local `connections`
    km_i,           \* the position of its loop in `connections`
    km_results,     \* its local `all_results`
    km_errors,      \* its local `errors`
    km_answers,     \* what the backend answered, per position of `connections`
    km_out,         \* the dictionary the last search_and_store returned
    km_calls,       \* number of search_and_store calls so far
    km_edits,       \* number of changes made to the storage so far
    km_connector_tool,  \* AgentManager.km_connector_tool: the session it serves
    tools_available,    \* AgentManager.tools_available
    req_pc,         \* position of each chat request
    req,            \* the ChatRequest of each chat request
    req_tool,       \* the tool each request's knowledge search ran on
    qr_pc,          \* _query_connection: before or after the results are built
    qr_n,           \* its argument n_results
    qr_coll,        \* the distances the collection query returned
    qr_corp,        \* the distances the corpus query returned
    qr_all,         \* its local all_query_results before the sort
    qr_out,         \* the results of the KMSearchResult it returns
    ctx_pc,         \* get_km_context: before or after it ran
    ctx_results,    \* its argument results
    ctx_max,        \* its argument max_length
    ctx_out,        \* what it returned: the results added and the length of the text
    pq_pc,          \* process_query: the await it is at, or how it ended
    pq_args,        \* its arguments, with the agent's class and stored config
    pq_outcome,     \* per tool: not started, in flight, or how its call ended
    pq_results,     \* tool_results of _execute_tools
    pq_sent,        \* the call made to the agent
    pq_agent,       \* how the agent's call ended
    pq_response,    \* what process_query returned or raised
    pt_tasks,       \* ProgressTracker._tasks
    pt_lock,        \* the thread holding ProgressTracker._lock, or None
    pt_pc,          \* per thread: where it is in a ProgressTracker method
    pt_call,        \* per thread: the method it called last, with its arguments
    pt_ret,         \* per thread: what get_progress returned last
    ag_kind,        \* the class of the conversational agent
    ag_max,         \* its max_history_messages
    ag_initialized, \* its _initialized
    ag_client,      \* whether its client is set
    ag_conversations,   \* its conversations: conversation id -> list object
    ag_lists,       \* the list objects that are still referenced
    ag_pc,          \* per request: idle, or awaiting the model call
    ag_req,         \* per request: the arguments and locals of its query
    ag_ret,         \* per request: how its last query ended
    ag_calls,       \* number of model calls made so far
    rp_task,        \* SessionManager._cleanup_task: not started, running, cancelled
    rp_errors       \* number of errors _cleanup_loop has logged

storeVars == <<clock, sessions, heap, lock, nextConv, pc, call, ref, ret,
               reaper_pc, reaper_now, reaper_expired>>

kmVars == <<km_kind, km_store, km_clients, km_pc, km_ids, km_conns, km_i,
            km_results, km_errors, km_answers, km_out, km_calls, km_edits>>

chatVars == <<km_connector_tool, tools_available, req_pc, req, req_tool>>

qrVars == <<qr_pc, qr_n, qr_coll, qr_corp, qr_all, qr_out>>

ctxVars == <<ctx_pc, ctx_results, ctx_max, ctx_out>>

pqVars == <<pq_pc, pq_args, pq_outcome, pq_results, pq_sent, pq_agent, pq_response>>

ptVars == <<pt_tasks, pt_lock, pt_pc, pt_call, pt_ret>>

agVars == <<ag_kind, ag_max, ag_initialized, ag_client, ag_conversations, ag_lists,
            ag_pc, ag_req, ag_ret, ag_calls>>

rpVars == <<rp_task, rp_errors>>

laterVars == <<ptVars, agVars, rpVars>>

\* What the methods of the ProgressTracker leave alone.
ptOthers == <<storeVars, kmVars, chatVars, qrVars, ctxVars, pqVars, agVars, rpVars>>

\* What the methods of a conversational agent leave alone.
agOthers == <<storeVars, kmVars, chatVars, qrVars, ctxVars, pqVars, ptVars, rpVars>>

\* What starting and stopping the cleanup task leaves alone.
rpOthers == <<kmVars, chatVars, qrVars, ctxVars, pqVars, ptVars, agVars>>

restVars == <<qrVars, ctxVars, pqVars, laterVars>>

vars == <<storeVars, kmVars, chatVars, restVars>>

(***************************************************************************)
(* Dictionaries.                                                           *)
(***************************************************************************)
EmptyMap == << >>

Put(f, k, v) == [x \in (DOMAIN f) \cup {k} |-> IF x = k THEN v ELSE f[x]]

Del(f, k) == [x \in (DOMAIN f) \ {k} |-> f[x]]

Range(f) == {f[x] : x \in DOMAIN f}

\* dict.get(k)
DictGet(f, k) == IF k \in DOMAIN f THEN f[k] ELSE NoneId

(***************************************************************************)
(* Dataclasses of session_manager.py.                                      *)
(***************************************************************************)
SessionKMConnection(key) ==
    [status |-> "active",
     api_key |-> key,
     selected_collection_names |-> << >>,
     selected_corpus_ids |-> << >>,
     last_error |-> NoneStr]

SessionState(conv, now) ==
    [conversation_id |-> conv,
     created_at |-> now,
     last_activity |-> now,
     km_connections |-> EmptyMap,
     custom_endpoints |-> EmptyMap,
     agent_config_overrides |-> EmptyMap]

\* The collection of a SessionState that a method works on.
Collection(op) ==
    CASE op \in {"add_km_connection", "get_km_connections", "get_km_connection",
                 "update_km_connection", "delete_km_connection"}
           -> "km_connections"
      [] op \in {"add_custom_endpoint", "get_custom_endpoints",
                 "get_custom_endpoint", "delete_custom_endpoint"}
           -> "custom_endpoints"
      [] OTHER -> "agent_config_overrides"

\* setattr for every key of `updates` the dataclass has.
ApplyUpdates(conn, updates) ==
    [f \in DOMAIN conn |-> IF f \in DOMAIN updates THEN updates[f] ELSE conn[f]]

(***************************************************************************)
(* Return values.                                                          *)
(***************************************************************************)
Ret(tag, val) == [tag |-> tag, val |-> val]
RetNone == Ret("None", {})
RetFalse == Ret("False", {})
RetTrue == Ret("True", {})
RetRaised == Ret("raised", {})
RetSession(obj) == Ret("session", {obj})

\* Objects no thread and no table entry refers to any more are dropped.
Live(table, refs) == Range(table) \cup (Range(refs) \ {NoneId})

Collect(h, table, refs) == [o \in (DOMAIN h) \cap Live(table, refs) |-> h[o]]

\* Mutant of Touch: the lookup returns the session without refreshing it.
Touch_skipped(h, obj, now) == h

\* `session.last_activity = datetime.utcnow()`
Touch(h, obj, now) == [h EXCEPT ![obj].last_activity = now]

\* Mutant of Acquirable: the block is entered without waiting for the lock.
Acquirable_unguarded(t) == TRUE

\* `with self._lock:` can be entered.
Acquirable(t) == lock = NoneId

InitStore ==
    /\ clock = 0
    /\ sessions = EmptyMap
    /\ heap = EmptyMap
    /\ lock = NoneId
    /\ nextConv = 0
    /\ pc = [t \in Threads |-> "idle"]
    /\ call = [t \in Threads |-> [op |-> "none", sid |-> NoneId, item |-> NoneId, arg |-> << >>]]
    /\ ref = [t \in Threads |-> NoneId]
    /\ ret = [t \in Threads |-> RetNone]
    /\ reaper_pc = "sleep"
    /\ reaper_now = 0
    /\ reaper_expired = {}

\* A KMConnectorTool built on one of the storages in `kinds`, before any call.
InitTool(kinds) ==
    /\ km_kind \in kinds
    /\ km_store = EmptyMap
    /\ km_clients = EmptyMap
    /\ km_pc = "idle"
    /\ km_ids = NoIds
    /\ km_conns = << >>
    /\ km_i = 1
    /\ km_results = << >>
    /\ km_errors = << >>
    /\ km_answers = << >>
    /\ km_out = NoOutput
    /\ km_calls = 0
    /\ km_edits = 0

\* The AgentManager singleton before any chat request; `web` are the values
\* WebSearchTool.is_configured() may have given.
InitManager(web) ==
    /\ km_connector_tool = NoneId
    /\ tools_available \in [web_search : web]
    /\ req_pc = [r \in Requests |-> "start"]
    /\ req = [r \in Requests |-> NoRequest]
    /\ req_tool = [r \in Requests |-> NoneId]

\* _query_connection called with n_results in `widths`, the backend
\* returning the distances in `lists` to its collection and corpus queries.
InitResults(widths, lists) ==
    /\ qr_pc = "called"
    /\ qr_n \in widths
    /\ qr_coll \in lists
    /\ qr_corp \in lists
    /\ qr_all = << >>
    /\ qr_out = << >>

\* get_km_context called with a list in `lists` and a max_length in `budgets`.
InitContext(lists, budgets) ==
    /\ ctx_pc = "called"
    /\ ctx_results \in lists
    /\ ctx_max \in budgets
    /\ ctx_out = [added |-> << >>, length |-> 0]

\* The tools of _execute_tools, in the order it considers them.
ToolNames == <<"web_search", "km_search", "file_search">>

Tools == {ToolNames[i] : i \in 1..Len(ToolNames)}

\* No call made to the agent, no agent outcome, nothing returned yet.
NoCall == [called |-> FALSE, message |-> << >>, parameters |-> << >>, kwargs |-> << >>]

NoReturn == [raised |-> FALSE, response |-> NoneStr, workflow_status |-> NoneStr,
             tools_used |-> << >>, conversation_id |-> NoneStr, keys |-> {}]

\* Arguments of a process_query call that is not made.
NoArgs == [agent |-> "standard", config |-> << >>, enable_web_search |-> FALSE,
           enable_km_search |-> FALSE, uploaded_files |-> FALSE, parameters |-> << >>,
           conversation_id |-> NoneStr]

\* process_query about to be called with arguments in `args`.
InitCall(args) ==
    /\ pq_pc = "called"
    /\ pq_args \in args
    /\ pq_outcome = [t \in Tools |-> "not_started"]
    /\ pq_results = << >>
    /\ pq_sent = NoCall
    /\ pq_agent = NoneStr
    /\ pq_response = NoReturn

\* A ProgressTracker after construction.
InitTracker ==
    /\ pt_tasks = EmptyMap
    /\ pt_lock = NoneId
    /\ pt_pc = [t \in Threads |-> "idle"]
    /\ pt_call = [t \in Threads |-> [op |-> "none", task_id |-> NoneId, progress |-> 0]]
    /\ pt_ret = [t \in Threads |-> [progress |-> 0, status |-> NoneStr, message |-> NoneStr]]

\* A query that was not made, and the result of no query.
NoQuery == [conversation_id |-> NoneStr, parameters |-> << >>, history |-> NoneId,
            turn |-> 0, system |-> NoneStr]

NoReply == [tag |-> "none", turn |-> 0, trimmed |-> FALSE]

\* A conversational agent of one of the classes in `kinds`, built from a
\* config whose max_history_messages is in `maxes`, before initialize().
InitAgent(kinds, maxes) ==
    /\ ag_kind \in kinds
    /\ ag_max \in maxes
    /\ ag_initialized = FALSE
    /\ ag_client = FALSE
    /\ ag_conversations = EmptyMap
    /\ ag_lists = EmptyMap
    /\ ag_pc = [r \in Requests |-> "idle"]
    /\ ag_req = [r \in Requests |-> NoQuery]
    /\ ag_ret = [r \in Requests |-> NoReply]
    /\ ag_calls = 0

\* The cleanup task of the SessionManager in one of the states in `tasks`.
InitCleanupTask(tasks) ==
    /\ rp_task \in tasks
    /\ rp_errors = 0

InitLater == InitTracker /\ InitAgent({"openai"}, {1}) /\ InitCleanupTask({"running"})

\* The specifications of single functions, before they are given inputs.
InitRest ==
    /\ InitResults({1}, {<< >>}) /\ InitContext({<< >>}, {0}) /\ InitCall({NoArgs})
    /\ InitLater

Init == InitStore /\ InitTool({"file"}) /\ InitManager({FALSE}) /\ InitRest

Pending == Ret("pending", {})

Call(op, sid, item, arg) == [op |-> op, sid |-> sid, item |-> item, arg |-> arg]

\* Mutant of NotFound: a missing session is reported as success.
NotFound_truthy(op) == RetTrue

\* The value a method returns when the session or the item is missing.
NotFound(op) ==
    CASE op \in {"get_km_connections", "get_custom_endpoints"} -> Ret("list", {})
      [] op \in {"get_session", "get_km_connection", "get_custom_endpoint",
                 "get_agent_config_override"} -> RetNone
      [] OTHER -> RetFalse

\* What add_* / set_* stores under the item id.
Stored(op, item) ==
    IF op = "add_km_connection" THEN SessionKMConnection(item) ELSE [id |-> item]

UpdateArgs == {[status |-> "inactive"], [status |-> "active"]}

Tick ==
    /\ clock < MaxTime
    /\ clock' = clock + 1
    /\ UNCHANGED <<sessions, heap, lock, nextConv, pc, call, ref, ret,
                   reaper_pc, reaper_now, reaper_expired,
                   kmVars, chatVars, restVars>>

(***************************************************************************)
(* SessionManager.get_or_create_session: the body runs under the lock.     *)
(* The first step enters the lock and evaluates `session_id in _sessions`, *)
(* the second one refreshes or inserts and leaves the lock.                *)
(***************************************************************************)
get_or_create_session_enter(t, ids) ==
    \E sid \in ids :
        /\ pc[t] = "idle"
        /\ Acquirable(t)
        /\ (sid # NoneId /\ sid \in DOMAIN sessions) \/ nextConv < MaxConv
        /\ lock' = t
        /\ call' = [call EXCEPT ![t] = Call("get_or_create_session", sid, NoneId, EmptyMap)]
        /\ ref' = [ref EXCEPT ![t] =
                      IF sid # NoneId /\ sid \in DOMAIN sessions
                      THEN sessions[sid] ELSE NoneId]
        /\ pc' = [pc EXCEPT ![t] = "goc"]
        /\ ret' = [ret EXCEPT ![t] = Pending]
        /\ UNCHANGED <<clock, sessions, heap, nextConv, reaper_pc, reaper_now, reaper_expired,
                   kmVars, chatVars, restVars>>

get_or_create_session_body(t) ==
    /\ pc[t] = "goc"
    /\ ref' = [ref EXCEPT ![t] = NoneId]
    /\ IF ref[t] # NoneId
       THEN /\ heap' = Collect(Touch(heap, ref[t], clock),
                               sessions, ref')
            /\ ret' = [ret EXCEPT ![t] = RetSession(ref[t])]
            /\ UNCHANGED <<sessions, nextConv>>
       ELSE LET conv == nextConv + 1
                new_id == IF call[t].sid # NoneId THEN call[t].sid
                          ELSE GenBase + conv
            IN  /\ nextConv < MaxConv
                /\ nextConv' = conv
                /\ sessions' = Put(sessions, new_id, conv)
                /\ heap' = Collect(Put(heap, conv, SessionState(conv, clock)),
                                   sessions', ref')
                /\ ret' = [ret EXCEPT ![t] = RetSession(conv)]
    /\ lock' = IF lock = t THEN NoneId ELSE lock
    /\ pc' = [pc EXCEPT ![t] = "idle"]
    /\ UNCHANGED <<clock, call, reaper_pc, reaper_now, reaper_expired,
                   kmVars, chatVars, restVars>>

(***************************************************************************)
(* SessionManager.get_session and delete_session: one locked block each.   *)
(***************************************************************************)
get_session(t) ==
    \E sid \in SessionIds :
        /\ pc[t] = "idle"
        /\ Acquirable(t)
        /\ call' = [call EXCEPT ![t] = Call("get_session", sid, NoneId, EmptyMap)]
        /\ IF DictGet(sessions, sid) # NoneId
           THEN /\ heap' = Touch(heap, DictGet(sessions, sid), clock)
                /\ ret' = [ret EXCEPT ![t] = RetSession(DictGet(sessions, sid))]
           ELSE /\ ret' = [ret EXCEPT ![t] = NotFound("get_session")]
                /\ UNCHANGED heap
        /\ UNCHANGED <<clock, sessions, lock, nextConv, pc, ref, reaper_pc, reaper_now, reaper_expired,
                   kmVars, chatVars, restVars>>

delete_session(t) ==
    \E sid \in SessionIds :
        /\ pc[t] = "idle"
        /\ Acquirable(t)
        /\ call' = [call EXCEPT ![t] = Call("delete_session", sid, NoneId, EmptyMap)]
        /\ IF sid \in DOMAIN sessions
           THEN /\ sessions' = Del(sessions, sid)
                /\ heap' = Collect(heap, sessions', ref)
                /\ ret' = [ret EXCEPT ![t] = RetTrue]
           ELSE /\ ret' = [ret EXCEPT ![t] = RetFalse]
                /\ UNCHANGED <<sessions, heap>>
        /\ UNCHANGED <<clock, lock, nextConv, pc, ref, reaper_pc, reaper_now, reaper_expired,
                   kmVars, chatVars, restVars>>

(***************************************************************************)
(* The sub-collection methods.  Each starts with self.get_session(), which *)
(* takes and leaves the lock; what follows runs after the lock was left.   *)
(***************************************************************************)
Lookup(t, op, sid, item, arg, nextpc) ==
    /\ pc[t] = "idle"
    /\ Acquirable(t)
    /\ call' = [call EXCEPT ![t] = Call(op, sid, item, arg)]
    /\ IF DictGet(sessions, sid) # NoneId
       THEN /\ heap' = Touch(heap, DictGet(sessions, sid), clock)
            /\ ref' = [ref EXCEPT ![t] = DictGet(sessions, sid)]
            /\ pc' = [pc EXCEPT ![t] = nextpc]
            /\ ret' = [ret EXCEPT ![t] = Pending]
       ELSE /\ ret' = [ret EXCEPT ![t] = NotFound(op)]
            /\ UNCHANGED <<heap, ref, pc>>
    /\ UNCHANGED <<clock, sessions, lock, nextConv, reaper_pc, reaper_now, reaper_expired,
                   kmVars, chatVars, restVars>>

\* The method returns: the thread drops its reference to the session.
Finish(t, h, r) ==
    /\ ret' = [ret EXCEPT ![t] = r]
    /\ ref' = [ref EXCEPT ![t] = NoneId]
    /\ heap' = Collect(h, sessions, ref')
    /\ pc' = [pc EXCEPT ![t] = "idle"]
    /\ UNCHANGED <<clock, sessions, lock, nextConv, call, reaper_pc, reaper_now, reaper_expired,
                   kmVars, chatVars, restVars>>

Coll(t) == heap[ref[t]][Collection(call[t].op)]

SetColl(t, c) == [heap EXCEPT ![ref[t]][Collection(call[t].op)] = c]

add_km_connection(t) ==
    \E sid \in SessionIds, c \in ItemIds :
        Lookup(t, "add_km_connection", sid, c, EmptyMap, "insert")

get_km_connections(t) ==
    \E sid \in SessionIds :
        Lookup(t, "get_km_connections", sid, NoneId, EmptyMap, "read_all")

get_km_connection(t) ==
    \E sid \in SessionIds, c \in ItemIds :
        Lookup(t, "get_km_connection", sid, c, EmptyMap, "read_item")

update_km_connection(t) ==
    \E sid \in SessionIds, c \in ItemIds, u \in UpdateArgs :
        Lookup(t, "update_km_connection", sid, c, u, "check")

delete_km_connection(t) ==
    \E sid \in SessionIds, c \in ItemIds :
        Lookup(t, "delete_km_connection", sid, c, EmptyMap, "check")

add_custom_endpoint(t) ==
    \E sid \in SessionIds, e \in ItemIds :
        Lookup(t, "add_custom_endpoint", sid, e, EmptyMap, "insert")

get_custom_endpoints(t) ==
    \E sid \in SessionIds :
        Lookup(t, "get_custom_endpoints", sid, NoneId, EmptyMap, "read_all")

get_custom_endpoint(t) ==
    \E sid \in SessionIds, e \in ItemIds :
        Lookup(t, "get_custom_endpoint", sid, e, EmptyMap, "read_item")

delete_custom_endpoint(t) ==
    \E sid \in SessionIds, e \in ItemIds :
        Lookup(t, "delete_custom_endpoint", sid, e, EmptyMap, "check")

set_agent_config_override(t) ==
    \E sid \in SessionIds, a \in ItemIds :
        Lookup(t, "set_agent_config_override", sid, a, EmptyMap, "insert")

get_agent_config_override(t) ==
    \E sid \in SessionIds, a \in ItemIds :
        Lookup(t, "get_agent_config_override", sid, a, EmptyMap, "read_item")

clear_agent_config_override(t) ==
    \E sid \in SessionIds, a \in ItemIds :
        Lookup(t, "clear_agent_config_override", sid, a, EmptyMap, "check")

\* `with self._lock: session.<collection>[id] = value; return True`
locked_insert(t) ==
    /\ pc[t] = "insert"
    /\ Acquirable(t)
    /\ Finish(t, SetColl(t, Put(Coll(t), call[t].item, Stored(call[t].op, call[t].item))),
              RetTrue)

\* `return list(session.<collection>.values())`
read_all(t) ==
    /\ pc[t] = "read_all"
    /\ Finish(t, heap, Ret("list", DOMAIN Coll(t)))

\* `return session.<collection>.get(id)`
read_item(t) ==
    /\ pc[t] = "read_item"
    /\ Finish(t, heap, IF call[t].item \in DOMAIN Coll(t)
                       THEN Ret("item", {call[t].item}) ELSE RetNone)

\* `if not session or id not in session.<collection>: return False`
check_item(t) ==
    /\ pc[t] = "check"
    /\ IF call[t].item \in DOMAIN Coll(t)
       THEN /\ pc' = [pc EXCEPT ![t] =
                        IF call[t].op = "update_km_connection"
                        THEN "update" ELSE "delete"]
            /\ UNCHANGED <<clock, sessions, heap, lock, nextConv, call, ref, ret,
                           reaper_pc, reaper_now, reaper_expired,
                   kmVars, chatVars, restVars>>
       ELSE Finish(t, heap, RetFalse)

\* update_km_connection after the check: the item is fetched and its fields
\* are set without the lock.
unlocked_update(t) ==
    /\ pc[t] = "update"
    /\ IF call[t].item \in DOMAIN Coll(t)
       THEN Finish(t, SetColl(t, [Coll(t) EXCEPT ![call[t].item] =
                                     ApplyUpdates(@, call[t].arg)]),
                   RetTrue)
       ELSE Finish(t, heap, RetRaised)

\* `with self._lock: del session.<collection>[id]; return True`
locked_delete(t) ==
    /\ pc[t] = "delete"
    /\ Acquirable(t)
    /\ IF call[t].item \in DOMAIN Coll(t)
       THEN Finish(t, SetColl(t, Del(Coll(t), call[t].item)), RetTrue)
       ELSE Finish(t, heap, RetRaised)

(***************************************************************************)
(* The reaper: _cleanup_loop calls _cleanup_expired after every sleep.     *)
(* `now` is read before the lock is taken.                                 *)
(***************************************************************************)
\* Mutant of Expired: a session whose age equals the TTL is reaped as well.
Expired_inclusive(table, h, now) ==
    {sid \in DOMAIN table : now - h[table[sid]].last_activity >= ttl}

Expired(table, h, now) ==
    {sid \in DOMAIN table : now - h[table[sid]].last_activity > ttl}

cleanup_read_now ==
    /\ reaper_pc = "sleep"
    /\ reaper_now' = clock
    /\ reaper_pc' = "sweep"
    /\ UNCHANGED <<clock, sessions, heap, lock, nextConv, pc, call, ref, ret,
                   reaper_expired,
                   kmVars, chatVars, restVars>>

cleanup_sweep ==
    /\ reaper_pc = "sweep"
    /\ Acquirable(NoneId)
    /\ reaper_expired' = Expired(sessions, heap, reaper_now)
    /\ sessions' = [sid \in (DOMAIN sessions) \ reaper_expired' |-> sessions[sid]]
    /\ heap' = Collect(heap, sessions', ref)
    /\ reaper_pc' = "sleep"
    /\ UNCHANGED <<clock, lock, nextConv, pc, call, ref, ret, reaper_now,
                   kmVars, chatVars, restVars>>

StoreStep(t) ==
    \/ get_or_create_session_enter(t, SessionIds)
    \/ get_or_create_session_body(t)
    \/ get_session(t)
    \/ delete_session(t)

SubStep(t) ==
    \/ get_or_create_session_enter(t, CreatedIds \cup {NoneId})
    \/ get_or_create_session_body(t)
    \/ get_session(t)
    \/ delete_session(t)
    \/ add_km_connection(t)
    \/ get_km_connections(t)
    \/ get_km_connection(t)
    \/ update_km_connection(t)
    \/ delete_km_connection(t)
    \/ add_custom_endpoint(t)
    \/ get_custom_endpoints(t)
    \/ get_custom_endpoint(t)
    \/ delete_custom_endpoint(t)
    \/ set_agent_config_override(t)
    \/ get_agent_config_override(t)
    \/ clear_agent_config_override(t)
    \/ locked_insert(t)
    \/ read_all(t)
    \/ read_item(t)
    \/ check_item(t)
    \/ unlocked_update(t)
    \/ locked_delete(t)

(***************************************************************************)
(* Spec: threads creating, looking up and deleting sessions while the      *)
(* reaper runs.                                                            *)
(***************************************************************************)
Next ==
    \/ Tick
    \/ cleanup_read_now
    \/ cleanup_sweep
    \/ \E t \in Threads : StoreStep(t)

Spec == Init /\ [][Next]_vars

(***************************************************************************)
(* SpecSub: threads working on the collections a session owns.             *)
(***************************************************************************)
NextSub ==
    \/ Tick
    \/ \E t \in Callers : SubStep(t)

SpecSub == Init /\ [][NextSub]_vars


(***************************************************************************)
(* KMConnectorTool (tools/km_connector.py) over one of its two storages:   *)
(* KMConnectionStorage ("file") or SessionKMConnectionAdapter ("session"). *)
(***************************************************************************)
\* models/km_models.py: the values of the enum KMConnectionStatus.
KMConnectionStatus == {"active", "inactive", "error"}

\* SessionKMConnection.status and SessionKMConnectionUpdate.status are plain
\* strings: "disabled" stands for any string that is none of the enum's values.
StatusStrings == KMConnectionStatus \cup {"disabled"}

\* What the backend may answer to one request of KMServerClient._make_request:
\* a response, 401/403, a timeout, or a transport, server or rate-limit error.
Outcomes == {"ok", "KMAuthenticationError", "KMTimeoutError", "KMConnectionError"}

SelectableCollections == {<< >>, <<"docs">>}
SelectableCorpora == {<< >>, <<7>>, <<7, 8>>}

\* The connection_ids a caller may pass: None, [] or a list of ids.
ConnectionIdLists ==
    {NoIds, << >>} \cup {<<a>> : a \in KMIds \cup {UnknownId}}
                     \cup {<<a, b>> : a \in KMIds, b \in KMIds \cup {UnknownId}}

\* The KMConnection object handed to the tool for the stored connection c.
KMConnection(id, c, status) ==
    [id |-> id,
     status |-> status,
     selected_collection_names |-> c.selected_collection_names,
     selected_corpus_ids |-> c.selected_corpus_ids]

\* SessionKMConnectionAdapter._to_km_connection
_to_km_connection(id, session_conn) ==
    KMConnection(id, session_conn,
                 IF session_conn.status \in {"active", "inactive", "error"}
                 THEN session_conn.status ELSE "active")

\* connection_storage.get_connection of either storage.
get_connection(kind, store, id) ==
    IF id \notin DOMAIN store THEN NoConnection
    ELSE IF kind = "session" THEN _to_km_connection(id, store[id])
         ELSE KMConnection(id, store[id], store[id].status)

\* An api_key_encrypted written under another encryption key than the one the
\* storage was started with: _decrypt_api_key raises on it.
Undecryptable == "undecryptable"

\* connection_storage.get_connection_api_key of either storage.
get_connection_api_key(store, id) ==
    IF id \in DOMAIN store /\ store[id].api_key # Undecryptable
    THEN store[id].api_key ELSE NoneStr

HasSelections(c) ==
    c.selected_collection_names # << >> \/ c.selected_corpus_ids # << >>

RECURSIVE Ascending(_)
\* The ids of a set in the order the dictionary holds them (creation order).
Ascending(S) ==
    IF S = {} THEN << >>
    ELSE LET m == CHOOSE x \in S : \A y \in S : x <= y
         IN <<m>> \o Ascending(S \ {m})

\* connection_storage.get_active_connections_with_selections of either storage.
get_active_connections_with_selections(kind, store) ==
    LET ids == Ascending({id \in DOMAIN store :
                            store[id].status = "active" /\ HasSelections(store[id])})
    IN [k \in 1..Len(ids) |-> get_connection(kind, store, ids[k])]

\* connection_storage.update_status of either storage.
update_status(kind, store, id, status, error) ==
    IF id \notin DOMAIN store THEN store
    ELSE IF kind = "session"
         THEN [store EXCEPT ![id] =
                 ApplyUpdates(@, [status |-> status, last_error |-> error])]
         ELSE [store EXCEPT ![id].status = status, ![id].last_error = error]

\* The `connections` search_and_store works on.
SelectConnections(kind, store, ids) ==
    IF ids # NoIds /\ ids # << >>
    THEN LET found == [k \in 1..Len(ids) |-> get_connection(kind, store, ids[k])]
             Usable(c) == c # NoConnection /\ c.status = "active"
         IN SelectSeq(found, Usable)
    ELSE get_active_connections_with_selections(kind, store)

\* KMConnectorTool._get_client: the client and the cache afterwards.
_get_client(clients, store, id) ==
    IF id \in DOMAIN clients
    THEN [client |-> clients[id], clients |-> clients]
    ELSE LET api_key == get_connection_api_key(store, id)
         IN IF api_key = NoneStr \/ api_key = ""
            THEN [client |-> NoClient, clients |-> clients]
            ELSE [client |-> [api_key |-> api_key, rejected |-> FALSE],
                  clients |-> Put(clients, id,
                                  [api_key |-> api_key, rejected |-> FALSE])]

\* KMConnectorTool._clear_client_cache
_clear_client_cache(clients, id) ==
    IF id \in DOMAIN clients THEN Del(clients, id) ELSE clients

\* The client of `id` has seen the backend refuse its credential.
Reject(clients, id, answers) ==
    IF "KMAuthenticationError" \in answers /\ id \in DOMAIN clients
    THEN [clients EXCEPT ![id].rejected = TRUE]
    ELSE clients

Oks(f) == Cardinality({k \in DOMAIN f : f[k] = "ok"})

\* KMConnectorTool._query_connection, the backend answering `co` to the
\* collection query and cq[k] to the k-th corpus query: the exception raised
\* (NoneStr when it returns), the result, the answers received and the cache.
_query_connection(clients, store, connection, co, cq) ==
    LET got == _get_client(clients, store, connection.id)
        corpora == connection.selected_corpus_ids
        asked == {cq[k] : k \in 1..Len(corpora)}
    IN  IF got.client = NoClient
        THEN [raised |-> "KMConnectionError", results_count |-> 0,
              answers |-> {}, clients |-> got.clients]
        ELSE IF ~HasSelections(connection)
        THEN [raised |-> NoneStr, results_count |-> 0,
              answers |-> {}, clients |-> got.clients]
        ELSE IF connection.selected_collection_names # << >> /\ co # "ok"
        THEN [raised |-> co, results_count |-> 0,
              answers |-> {co}, clients |-> Reject(got.clients, connection.id, {co})]
        ELSE LET answers == asked \cup
                     (IF connection.selected_collection_names # << >> THEN {co} ELSE {})
             IN [raised |-> NoneStr,
                 results_count |->
                     (IF connection.selected_collection_names # << >> THEN 1 ELSE 0)
                     + Oks([k \in 1..Len(corpora) |-> cq[k]]),
                 answers |-> answers,
                 clients |-> Reject(got.clients, connection.id, answers)]

\* The `error_type` search_and_store files an exception under.
ErrorType(exc) ==
    CASE exc = "KMAuthenticationError" -> "authentication"
      [] exc = "KMTimeoutError" -> "timeout"
      [] OTHER -> "unknown"

\* Mutant of AppendError: a timeout leaves no entry in the error list.
AppendError_dropped(errors, id, exc) ==
    IF exc = "KMTimeoutError" THEN errors
    ELSE Append(errors, [connection_id |-> id, error_type |-> ErrorType(exc)])

\* `errors.append({...})` of the three except clauses.
AppendError(errors, id, exc) ==
    Append(errors, [connection_id |-> id, error_type |-> ErrorType(exc)])

RECURSIVE SumCounts(_)
\* sum(r.results_count for r in all_results)
SumCounts(all_results) ==
    IF all_results = << >> THEN 0
    ELSE Head(all_results).results_count + SumCounts(Tail(all_results))

\* The dictionary search_and_store returns after its loop.
Aggregate(connections, all_results, errors) ==
    [success |-> Len(all_results) > 0,
     results |-> all_results,
     results_count |-> SumCounts(all_results),
     connections_queried |-> Len(connections),
     connections_successful |-> Len(all_results),
     errors |-> errors,
     partial_failure |-> Len(errors) > 0 /\ Len(all_results) > 0]

\* The dictionary it returns when there is nothing to query.
NoConnections ==
    [success |-> FALSE, results |-> << >>, results_count |-> 0]


\* POST /connections of either router: a new connection, active, nothing
\* selected.
create_km_connection ==
    /\ km_pc = "idle"
    /\ km_edits < MaxEdits
    /\ Cardinality(DOMAIN km_store) < Cardinality(KMIds)
    /\ km_store' = Put(km_store, Cardinality(DOMAIN km_store) + 1,
                       SessionKMConnection("key"))
    /\ km_edits' = km_edits + 1
    /\ UNCHANGED <<km_kind, km_clients, km_pc, km_ids, km_conns, km_i, km_results,
                   km_errors, km_answers, km_out, km_calls, storeVars, chatVars, restVars>>

\* PUT /connections/{id}: the session router stores the status string it is
\* given, the file router maps is_active to ACTIVE or INACTIVE.
update_km_status ==
    /\ km_pc = "idle"
    /\ km_edits < MaxEdits
    /\ \E id \in DOMAIN km_store :
       \E status \in IF km_kind = "session" THEN StatusStrings
                     ELSE {"active", "inactive"} :
            km_store' = [km_store EXCEPT ![id] = ApplyUpdates(@, [status |-> status])]
    /\ km_edits' = km_edits + 1
    /\ UNCHANGED <<km_kind, km_clients, km_pc, km_ids, km_conns, km_i, km_results,
                   km_errors, km_answers, km_out, km_calls, storeVars, chatVars, restVars>>

\* PUT /connections/{id}/selections of either router.
update_km_selections ==
    /\ km_pc = "idle"
    /\ km_edits < MaxEdits
    /\ \E id \in DOMAIN km_store :
       \E names \in SelectableCollections, corpus_ids \in SelectableCorpora :
            km_store' = [km_store EXCEPT ![id] =
                            ApplyUpdates(@, [selected_collection_names |-> names,
                                             selected_corpus_ids |-> corpus_ids])]
    /\ km_edits' = km_edits + 1
    /\ UNCHANGED <<km_kind, km_clients, km_pc, km_ids, km_conns, km_i, km_results,
                   km_errors, km_answers, km_out, km_calls, storeVars, chatVars, restVars>>

\* The server is started again with another KM_ENCRYPTION_KEY (or without its
\* key file): _load_connections reads the connections back, their keys can no
\* longer be decrypted, and the new tool has an empty client cache.
restart_with_new_key ==
    /\ km_pc = "idle"
    /\ km_kind = "file"
    /\ km_edits < MaxEdits
    /\ km_store # EmptyMap
    /\ km_store' = [id \in DOMAIN km_store |->
                        [km_store[id] EXCEPT !.api_key = Undecryptable]]
    /\ km_clients' = EmptyMap
    /\ km_edits' = km_edits + 1
    /\ UNCHANGED <<km_kind, km_pc, km_ids, km_conns, km_i, km_results,
                   km_errors, km_answers, km_out, km_calls, storeVars, chatVars, restVars>>

\* search_and_store up to its loop: the connections are selected, and the
\* call returns at once when there are none.
search_and_store ==
    /\ km_pc = "idle"
    /\ km_calls < MaxSearches
    /\ \E connection_ids \in ConnectionIdLists :
          /\ km_ids' = connection_ids
          /\ km_conns' = SelectConnections(km_kind, km_store, connection_ids)
    /\ km_calls' = km_calls + 1
    /\ km_i' = 1
    /\ km_results' = << >>
    /\ km_errors' = << >>
    /\ km_answers' = << >>
    /\ IF km_conns' = << >>
       THEN km_pc' = "done" /\ km_out' = NoConnections
       ELSE km_pc' = "loop" /\ km_out' = NoOutput
    /\ UNCHANGED <<km_kind, km_store, km_clients, km_edits, storeVars, chatVars, restVars>>

\* One turn of `for conn in connections`: the query and the except clauses.
query_connection ==
    /\ km_pc = "loop"
    /\ km_i <= Len(km_conns)
    /\ LET conn == km_conns[km_i] IN
       \E co \in Outcomes, cq \in [1..Len(conn.selected_corpus_ids) -> Outcomes] :
          LET q == _query_connection(km_clients, km_store, conn, co, cq)
          IN  /\ km_answers' = Append(km_answers, q.answers)
              /\ IF q.raised = NoneStr
                 THEN /\ km_results' = Append(km_results,
                              [connection_id |-> conn.id,
                               results_count |-> q.results_count])
                      /\ km_clients' = q.clients
                      /\ UNCHANGED <<km_errors, km_store>>
                 ELSE /\ km_errors' = AppendError(km_errors, conn.id, q.raised)
                      /\ IF q.raised = "KMAuthenticationError"
                         THEN /\ km_store' = update_status(km_kind, km_store, conn.id,
                                                           "error", "Invalid or expired API key")
                              /\ km_clients' = _clear_client_cache(q.clients, conn.id)
                         ELSE /\ km_clients' = q.clients
                              /\ UNCHANGED km_store
                      /\ UNCHANGED km_results
    /\ km_i' = km_i + 1
    /\ UNCHANGED <<km_kind, km_pc, km_ids, km_conns, km_out, km_calls, km_edits,
                   storeVars, chatVars, restVars>>

\* The loop is over: the aggregate is returned.
search_and_store_return ==
    /\ km_pc = "loop"
    /\ km_i > Len(km_conns)
    /\ km_out' = Aggregate(km_conns, km_results, km_errors)
    /\ km_pc' = "done"
    /\ UNCHANGED <<km_kind, km_store, km_clients, km_ids, km_conns, km_i, km_results,
                   km_errors, km_answers, km_calls, km_edits, storeVars, chatVars, restVars>>

\* The caller has read the dictionary; the locals of the call are gone.
search_result_read ==
    /\ km_pc = "done"
    /\ km_pc' = "idle"
    /\ km_ids' = NoIds
    /\ km_conns' = << >>
    /\ km_i' = 1
    /\ km_results' = << >>
    /\ km_errors' = << >>
    /\ km_answers' = << >>
    /\ km_out' = NoOutput
    /\ UNCHANGED <<km_kind, km_store, km_clients, km_calls, km_edits,
                   storeVars, chatVars, restVars>>

(***************************************************************************)
(* SpecKM: one KMConnectorTool answering search_and_store calls, its       *)
(* storage being edited between the calls.                                 *)
(***************************************************************************)
InitKM == InitStore /\ InitTool({"file", "session"}) /\ InitManager({FALSE}) /\ InitRest

NextKM ==
    \/ create_km_connection
    \/ update_km_status
    \/ update_km_selections
    \/ restart_with_new_key
    \/ search_and_store
    \/ query_connection
    \/ search_and_store_return
    \/ search_result_read

SpecKM == InitKM /\ [][NextKM]_vars

(***************************************************************************)
(* The result set _query_connection builds (km_connector.py 488-549).      *)
(* Distances and relevance scores are counted in steps of 1/ScoreOne.      *)
(***************************************************************************)
\* The number 1 of `1 - dist`, in steps.
ScoreOne == 2

\* relevance_score = None
NoScore == -1

\* The distances a backend may report for one document.
Distances == 0..MaxDist

\* The lists of distances one query may return.
DistanceLists == UNION {[1..n -> Distances] : n \in 0..MaxDocs}

Max(a, b) == IF a >= b THEN a ELSE b

Min(a, b) == IF a <= b THEN a ELSE b

\* `max(0, 1 - dist) if dist else None`: a distance of 0 is falsy.
relevance_score(dist) ==
    IF dist # 0 THEN Max(0, ScoreOne - dist) ELSE NoScore

\* The KMQueryResult built for a document; `distance` keeps what the backend
\* reported for it.
KMQueryResult(origin, dist) ==
    [origin |-> origin, distance |-> dist, relevance_score |-> relevance_score(dist)]

\* The entries appended for the documents of one response.
Entries(origin, dists) == [k \in 1..Len(dists) |-> KMQueryResult(origin, dists[k])]

\* `key=lambda x: x.relevance_score or 0`
SortKey(x) == IF x.relevance_score = NoScore THEN 0 ELSE x.relevance_score

RECURSIVE InsertDescending(_, _)
\* x put behind every entry whose key is at least its own.
InsertDescending(sorted, x) ==
    IF sorted = << >> THEN <<x>>
    ELSE IF SortKey(Head(sorted)) >= SortKey(x)
         THEN <<Head(sorted)>> \o InsertDescending(Tail(sorted), x)
         ELSE <<x>> \o sorted

RECURSIVE SortDescending(_)
\* list.sort(key=..., reverse=True): stable, largest key first.
SortDescending(seq) ==
    IF seq = << >> THEN << >>
    ELSE InsertDescending(SortDescending(SubSeq(seq, 1, Len(seq) - 1)),
                          seq[Len(seq)])

\* all_query_results[:n_results * 2]
Truncate(seq, n_results) == SubSeq(seq, 1, Min(Len(seq), n_results * 2))

\* _query_connection from the responses to the KMSearchResult.
build_results ==
    /\ qr_pc = "called"
    /\ qr_all' = Entries("collection", qr_coll) \o Entries("corpus", qr_corp)
    /\ qr_out' = Truncate(SortDescending(qr_all'), qr_n)
    /\ qr_pc' = "returned"
    /\ UNCHANGED <<qr_n, qr_coll, qr_corp, storeVars, kmVars, chatVars, ctxVars, pqVars, laterVars>>

(***************************************************************************)
(* SpecResults: _query_connection building its result set from what the   *)
(* backend returned.                                                       *)
(***************************************************************************)
InitQuery ==
    /\ InitStore /\ InitTool({"file"}) /\ InitManager({FALSE})
    /\ InitResults(1..MaxN, DistanceLists)
    /\ InitContext({<< >>}, {0})
    /\ InitCall({NoArgs})
    /\ InitLater

NextResults == build_results

SpecResults == InitQuery /\ [][NextResults]_vars

\* C12: every entry a connection query returns carries the relevance
\* max(0, 1 - d) for the distance d >= 0 the backend reported for it, in
\* collection and in corpus queries.
C12_Relevance ==
    qr_pc = "returned" =>
        \A k \in 1..Len(qr_out) :
            qr_out[k].relevance_score = Max(0, ScoreOne - qr_out[k].distance)

Occurrences(seq, x) == Cardinality({k \in 1..Len(seq) : seq[k] = x})

\* C13: the result set of a connection is its merged collection and corpus
\* entries, sorted by non-increasing relevance and cut to n_results entries.
C13_SortedAndTruncated ==
    qr_pc = "returned" =>
        /\ Len(qr_out) = Min(qr_n, Len(qr_all))
        /\ \A k \in 1..Len(qr_out) : Occurrences(qr_out, qr_out[k]) <= Occurrences(qr_all, qr_out[k])
        /\ \A k \in 1..(Len(qr_out) - 1) : SortKey(qr_out[k]) >= SortKey(qr_out[k + 1])
        /\ \A k \in 1..Len(qr_all) :
              Occurrences(qr_out, qr_all[k]) < Occurrences(qr_all, qr_all[k]) =>
                  \A j \in 1..Len(qr_out) : SortKey(qr_out[j]) >= SortKey(qr_all[k])

(***************************************************************************)
(* get_km_context (km_connector.py 572-637), on the lengths of the strings *)
(* it builds.                                                              *)
(***************************************************************************)
\* len("=== Knowledge Base Results ===")
HeaderLen == 30

\* len("=== End Knowledge Base Results ===")
FooterLen == 34

\* len("\n" + "-" * 50)
RuleLen == 51

\* Slice bound of `content[:500] + "..."`.
ContentCut == 500

\* A relevance_score below 0.
NegativeScore == -2

\* The default of max_length.
DefaultMaxLength == 4000

\* Lengths of the strings the results of the model carry: result.source,
\* result.collection_name, the digits of result.corpus_id, result.content.
SourceLen == 7
NameLen == 4
ContentLens == {0, 20, 600}

\* The results get_km_context is given: of a collection, of a corpus or of
\* neither, with or without content, with a relevance that is None, negative
\* or a score.
ContextResults ==
    [origin : {"collection", "corpus", "none"},
     content_len : ContentLens,
     relevance_score : {NoScore, NegativeScore, ScoreOne}]

ContextLists == UNION {[1..n -> ContextResults] : n \in 0..MaxResults}

\* The values of max_length the model tries.
Budgets == {20, 100, 110, 150, 200, 300, 700, DefaultMaxLength}

\* Number of decimal digits of a positive number below 100.
Digits(i) == IF i < 10 THEN 1 ELSE 2

\* len(part) for the i-th result.
PartLen(i, result) ==
    (9 + Digits(i) + 1)
    + (9 + SourceLen)
    + (CASE result.origin = "collection" -> 15 + NameLen
         [] result.origin = "corpus" -> 14 + 1
         [] OTHER -> 0)
    + (IF result.content_len = 0 THEN 0
       ELSE 10 + (IF result.content_len > ContentCut
                  THEN ContentCut + 3 ELSE result.content_len))
    + (IF result.relevance_score # NoScore THEN 12 + 4 ELSE 0)
    + RuleLen

RECURSIVE ContextLoop(_, _, _, _, _)
\* `for i, result in enumerate(results, 1)` from result i on; `joined` is
\* len('\n'.join(parts)) and `added` the results appended to parts so far.
ContextLoop(results, max_length, i, joined, added) ==
    IF i > Len(results) THEN [added |-> added, joined |-> joined]
    ELSE IF results[i].relevance_score # NoScore /\ results[i].relevance_score < 0
    THEN ContextLoop(results, max_length, i + 1, joined, added)
    ELSE IF joined + PartLen(i, results[i]) > max_length
    THEN [added |-> added, joined |-> joined]
    ELSE ContextLoop(results, max_length, i + 1,
                     joined + 1 + PartLen(i, results[i]), Append(added, i))

\* get_km_context: the results it put into the text and len(final_context).
get_km_context(results, max_length) ==
    IF results = << >> THEN [added |-> << >>, length |-> 0]
    ELSE LET loop == ContextLoop(results, max_length, 1, HeaderLen, << >>)
         IN IF loop.added = << >> THEN [added |-> << >>, length |-> 0]
            ELSE [added |-> loop.added, length |-> loop.joined + 1 + FooterLen]

format_context ==
    /\ ctx_pc = "called"
    /\ ctx_out' = get_km_context(ctx_results, ctx_max)
    /\ ctx_pc' = "returned"
    /\ UNCHANGED <<ctx_results, ctx_max, storeVars, kmVars, chatVars, qrVars, pqVars, laterVars>>

(***************************************************************************)
(* SpecContext: get_km_context applied to lists of results.                *)
(***************************************************************************)
InitFormat ==
    /\ InitStore /\ InitTool({"file"}) /\ InitManager({FALSE})
    /\ InitResults({1}, {<< >>})
    /\ InitContext(ContextLists, Budgets)
    /\ InitCall({NoArgs})
    /\ InitLater

NextContext == format_context

SpecContext == InitFormat /\ [][NextContext]_vars

\* The results get_km_context does not skip for a negative relevance.
Eligible == {i \in 1..Len(ctx_results) : ctx_results[i].relevance_score # NegativeScore}

\* C14: the text get_km_context returns, header, result blocks, footer and
\* joining newlines counted, is at most max_length characters long; the
\* results are added in their order, and none is added after the first one
\* that did not fit.
C14_WithinBudget ==
    ctx_pc = "returned" =>
        /\ ctx_out.length <= ctx_max
        /\ \A k \in 1..Len(ctx_out.added) : ctx_out.added[k] \in Eligible
        /\ \A k \in 1..(Len(ctx_out.added) - 1) : ctx_out.added[k] < ctx_out.added[k + 1]
        /\ \A i \in Eligible, j \in Eligible :
              (i < j /\ \E k \in 1..Len(ctx_out.added) : ctx_out.added[k] = j) =>
                  \E k \in 1..Len(ctx_out.added) : ctx_out.added[k] = i

(***************************************************************************)
(* AgentManager.process_query (agent_manager.py 100-180) and what it calls. *)
(* One call is followed from one await of an outbound call to the next.     *)
(* Texts are sequences of lines; a dictionary is a function on its keys.    *)
(***************************************************************************)
UserMessage == "user message"

\* The text a tool hands back as context when it found something.
ContextOf(tool) ==
    CASE tool = "web_search" -> "web context"
      [] tool = "km_search" -> "km context"
      [] OTHER -> "file context"

ContextTexts == {ContextOf(t) : t \in Tools}

\* ToolResult and ToolResult.to_dict, without data and timestamp.
ToolResult(tool_name, success, error, context) ==
    [tool_name |-> tool_name, success |-> success, error |-> error, context |-> context]

to_dict(tr) == [tool |-> tr.tool_name, success |-> tr.success, error |-> tr.error]

ToDicts(results) == [i \in 1..Len(results) |-> to_dict(results[i])]

\* How the outbound call of a tool may end: it raises, it reports failure
\* (success False in the metadata, no file indexed), it succeeds with nothing
\* to show, or it succeeds with a context.
ToolOutcomes == {"raised", "failed", "empty", "context"}

\* str(e) of the exception, or the message of the reported failure.
ErrorOf(tool, outcome) ==
    IF outcome = "raised" THEN "exception"
    ELSE CASE tool = "web_search" -> "Search failed"
           [] tool = "km_search" -> "KM search failed"
           [] OTHER -> "No files could be indexed"

\* The except clause and the failure return of an _execute_* wrapper: the
\* failure becomes a ToolResult in the list.
Caught_dropped(results, tool, outcome) == results

Caught(results, tool, outcome) ==
    Append(results, ToolResult(tool, FALSE, ErrorOf(tool, outcome), NoneStr))

\* The context of a successful call: get_search_context and get_file_context
\* return "" when they have nothing; _execute_km_search returns None then.
Succeeded(results, tool, outcome) ==
    Append(results,
           ToolResult(tool, TRUE, NoneStr,
                      IF outcome = "context" THEN ContextOf(tool)
                      ELSE IF tool = "km_search" THEN NoneStr ELSE ""))

\* _execute_web_search, _execute_km_search, _execute_file_search once the
\* outbound call is over.
Wrapped(results, tool, outcome) ==
    IF outcome \in {"raised", "failed"} THEN Caught(results, tool, outcome)
    ELSE Succeeded(results, tool, outcome)

\* _execute_tools from the file search on (233-243).
FileStage(args, available, results) ==
    IF args.uploaded_files
    THEN IF available.file_search
         THEN [pc |-> "file_search", results |-> results]
         ELSE [pc |-> "agent",
               results |-> Append(results, ToolResult("file_search", FALSE,
                                                      "File search not available", NoneStr))]
    ELSE [pc |-> "agent", results |-> results]

\* _execute_tools from the knowledge search on (222-230).
KMStage(args, available, tool, results) ==
    IF args.enable_km_search /\ tool # NoneId
    THEN [pc |-> "km_search", results |-> results]
    ELSE FileStage(args, available, results)

\* _execute_tools from its start (213-220).
WebStage(args, available, tool, results) ==
    IF args.enable_web_search /\ available.web_search
    THEN [pc |-> "web_search", results |-> results]
    ELSE KMStage(args, available, tool, results)

\* `if result.success and result.context` of _build_enhanced_prompt.
Usable_any(result) == TRUE

Usable(result) == result.success /\ result.context \notin {NoneStr, ""}

RECURSIVE ContextParts(_)
\* The parts f"\n{context}\n" of _format_message_with_context, as lines.
ContextParts(contexts) ==
    IF contexts = << >> THEN << >>
    ELSE <<"", Head(contexts), "">> \o ContextParts(Tail(contexts))

_format_message_with_context(message, contexts) ==
    <<"=== USER QUERY ===", message, "", "=== ADDITIONAL CONTEXT ===",
      "The following information was retrieved to help answer your query:", "">>
    \o ContextParts(contexts)
    \o <<"", "=== END ADDITIONAL CONTEXT ===", "",
         "Please answer the user's query using the provided context where relevant.">>

RECURSIVE ToolContexts(_)
\* tool_contexts of _build_enhanced_prompt.
ToolContexts(results) ==
    IF results = << >> THEN << >>
    ELSE (IF Usable(Head(results)) THEN <<Head(results).context>> ELSE << >>)
         \o ToolContexts(Tail(results))

_build_enhanced_prompt(message, results) ==
    LET tool_contexts == ToolContexts(results)
    IN [enhanced_message |-> IF tool_contexts # << >>
                             THEN _format_message_with_context(message, tool_contexts)
                             ELSE <<message>>,
        has_tool_context |-> tool_contexts # << >>]

\* dict.setdefault, with an overwriting variant.
SetDefault_overwriting(d, k, v) == Put(d, k, v)

SetDefault(d, k, v) == IF k \in DOMAIN d THEN d ELSE Put(d, k, v)

\* dict.get(k, default).
GetOr(d, k, default) == IF k \in DOMAIN d THEN d[k] ELSE default

\* The keyword arguments LangGraphAgent.execute_workflow hands to the workflow
\* function: the agent's fields, updated with the parameters, None dropped.
execute_workflow_params(config, parameters) ==
    LET fields == [k \in {"provider", "api_key", "temperature", "max_tokens", "recursion_limit"} |->
                      CASE k = "provider" -> GetOr(config, k, "openai")
                        [] k = "temperature" -> GetOr(config, k, "0.0")
                        [] k = "recursion_limit" -> GetOr(config, k, "100")
                        [] OTHER -> GetOr(config, k, NoneStr)]
        params == [k \in (DOMAIN fields) \cup (DOMAIN parameters) |->
                      IF k \in DOMAIN parameters THEN parameters[k] ELSE fields[k]]
    IN [k \in {x \in DOMAIN params : x = "tool_results" \/ params[x] # NoneStr} |-> params[k]]

\* The call _query_standard_agent makes: agent.query(message, parameters).
StandardCall(args, results) ==
    LET prompt_data == _build_enhanced_prompt(UserMessage, results)
    IN [called |-> TRUE,
        message |-> prompt_data.enhanced_message,
        parameters |-> IF prompt_data.has_tool_context
                       THEN Put(args.parameters, "system_message", "system instructions")
                       ELSE args.parameters,
        kwargs |-> << >>]

\* The call _query_workflow_agent makes: agent.execute_workflow(task, parameters).
WorkflowCall(args, results) ==
    LET p0 == IF results # << >>
              THEN Put(args.parameters, "tool_results", ToDicts(results))
              ELSE args.parameters
        p1 == SetDefault(p0, "provider", GetOr(args.config, "provider", "openai"))
        p2 == SetDefault(p1, "api_key", GetOr(args.config, "api_key", NoneStr))
        p3 == SetDefault(p2, "model_name", GetOr(args.config, "model_name", NoneStr))
        p4 == SetDefault(p3, "temperature", GetOr(args.config, "temperature", "0.0"))
        p5 == SetDefault(p4, "max_tokens", GetOr(args.config, "max_tokens", NoneStr))
        p6 == SetDefault(p5, "recursion_limit", GetOr(args.config, "recursion_limit", "100"))
    IN [called |-> TRUE, message |-> <<UserMessage>>, parameters |-> p6,
        kwargs |-> execute_workflow_params(args.config, p6)]

\* Step 2 of process_query up to the await of the agent's call.
CallAgent(args, results) ==
    IF args.agent = "workflow" THEN WorkflowCall(args, results)
    ELSE StandardCall(args, results)

\* _execute_tools goes on to `stage`, `outcomes` telling how the calls made so
\* far ended; past the last tool the agent is called.
Proceed(stage, outcomes) ==
    /\ pq_pc' = stage.pc
    /\ pq_results' = stage.results
    /\ pq_sent' = IF stage.pc = "agent" THEN CallAgent(pq_args, stage.results) ELSE NoCall
    /\ pq_outcome' = IF stage.pc \in Tools
                     THEN [outcomes EXCEPT ![stage.pc] = "in_flight"]
                     ELSE outcomes
    /\ UNCHANGED <<pq_args, pq_agent, pq_response, storeVars, kmVars, chatVars, qrVars, ctxVars, laterVars>>

\* process_query up to its first await.
process_query ==
    /\ pq_pc = "called"
    /\ Proceed(WebStage(pq_args, tools_available, km_connector_tool, << >>), pq_outcome)

\* `await self._execute_web_search(...)` is over.
_execute_web_search ==
    /\ pq_pc = "web_search"
    /\ \E outcome \in ToolOutcomes :
          Proceed(KMStage(pq_args, tools_available, km_connector_tool,
                          Wrapped(pq_results, "web_search", outcome)),
                  [pq_outcome EXCEPT !["web_search"] = outcome])

\* How search_and_store may end: without a connection in the storage it
\* returns success False before any outbound call.
KMOutcomes(available) == IF available.km_search THEN ToolOutcomes ELSE {"failed"}

\* `await self._execute_km_search(...)` is over.
_execute_km_search ==
    /\ pq_pc = "km_search"
    /\ \E outcome \in KMOutcomes(tools_available) :
          Proceed(FileStage(pq_args, tools_available,
                            Wrapped(pq_results, "km_search", outcome)),
                  [pq_outcome EXCEPT !["km_search"] = outcome])

\* `await self._execute_file_search(...)` is over.
_execute_file_search ==
    /\ pq_pc = "file_search"
    /\ \E outcome \in ToolOutcomes :
          Proceed([pc |-> "agent", results |-> Wrapped(pq_results, "file_search", outcome)],
                  [pq_outcome EXCEPT !["file_search"] = outcome])

\* How the agent's call may end: agent.query returns a reply or raises (the
\* model call failed or timed out); execute_workflow returns with status
\* completed or failed, or raises because the agent is not initialized.
AgentOutcomes(agent) ==
    IF agent = "workflow" THEN {"completed", "failed", "not_initialized"}
    ELSE {"reply", "error"}

\* _format_workflow_response, for a result without a codebase.
_format_workflow_response(status) ==
    IF status = "completed"
    THEN "Workflow completed successfully. Result available in metadata."
    ELSE "Workflow status: failed"

\* The conversation id process_query works with: the caller's, or a
\* generated one when the caller gave none.
ConversationId(args) ==
    IF args.conversation_id = NoneStr THEN "conv_generated" ELSE args.conversation_id

\* The keys of the dictionary process_query returns: those of
\* _query_standard_agent or of _query_workflow_agent, and the three of step 3.
ResponseKeys(agent) ==
    (IF agent = "workflow"
     THEN {"response", "workflow_status", "workflow_result", "metadata"}
     ELSE {"response", "conversation_id", "metadata", "prompt_engineered"})
    \cup {"tools_used", "web_search_enabled", "km_search_enabled"}

\* The await of the agent's call is over: _query_standard_agent or
\* _query_workflow_agent returns or re-raises, and step 3 of process_query
\* adds tools_used.
_query_agent ==
    /\ pq_pc = "agent"
    /\ \E outcome \in AgentOutcomes(pq_args.agent) :
          /\ pq_agent' = outcome
          /\ IF outcome \in {"error", "not_initialized"}
             THEN /\ pq_pc' = "raised"
                  /\ pq_response' = [NoReturn EXCEPT !.raised = TRUE]
             ELSE /\ pq_pc' = "returned"
                  /\ pq_response' =
                        [raised |-> FALSE,
                         response |-> IF outcome = "reply" THEN "reply"
                                      ELSE _format_workflow_response(outcome),
                         workflow_status |-> IF outcome = "reply" THEN NoneStr ELSE outcome,
                         tools_used |-> ToDicts(pq_results),
                         conversation_id |-> IF "conversation_id" \in ResponseKeys(pq_args.agent)
                                             THEN ConversationId(pq_args)
                                             ELSE NoneStr,
                         keys |-> ResponseKeys(pq_args.agent)]
    /\ UNCHANGED <<pq_args, pq_outcome, pq_results, pq_sent,
                   storeVars, kmVars, chatVars, qrVars, ctxVars, laterVars>>

(***************************************************************************)
(* SpecProcess: one process_query call, for every choice of flags, agent,  *)
(* parameters and configured tools.                                        *)
(***************************************************************************)
\* parameters of the chat request, and the config the agent was built from.
CallerParameters ==
    {EmptyMap,
     [k \in {"provider"} |-> "caller"],
     [k \in {"model_name", "temperature", "recursion_limit"} |-> "caller"]}

Configs ==
    {EmptyMap,
     [k \in {"temperature"} |-> "config"],
     [k \in {"provider", "model_name", "temperature", "recursion_limit"} |-> "config"]}

ProcessArgs ==
    [agent : {"standard", "workflow"}, config : Configs,
     enable_web_search : BOOLEAN, enable_km_search : BOOLEAN,
     uploaded_files : BOOLEAN, parameters : CallerParameters,
     conversation_id : {NoneStr, "conv_caller"}]

\* The AgentManager with or without a KM connector tool, whose storage had
\* connections or none when set_km_connector ran, and with web search
\* configured or not; FileSearchTool.is_configured() is always True.
InitTools ==
    /\ km_connector_tool \in {NoneId, 1}
    /\ tools_available \in [web_search : BOOLEAN, file_search : {TRUE}, km_search : BOOLEAN]
    /\ km_connector_tool = NoneId => ~tools_available.km_search
    /\ req_pc = [r \in Requests |-> "start"]
    /\ req = [r \in Requests |-> NoRequest]
    /\ req_tool = [r \in Requests |-> NoneId]

InitProcess ==
    /\ InitStore /\ InitTool({"file"}) /\ InitTools
    /\ InitResults({1}, {<< >>})
    /\ InitContext({<< >>}, {0})
    /\ InitCall(ProcessArgs)
    /\ InitLater

NextProcess ==
    \/ process_query
    \/ _execute_web_search
    \/ _execute_km_search
    \/ _execute_file_search
    \/ _query_agent

SpecProcess == InitProcess /\ [][NextProcess]_vars

(***************************************************************************)
(* Properties of process_query.                                            *)
(***************************************************************************)
\* What the caller asked for.
Requested(tool) ==
    CASE tool = "web_search" -> pq_args.enable_web_search
      [] tool = "km_search" -> pq_args.enable_km_search
      [] OTHER -> pq_args.uploaded_files

\* What the manager reports as available (get_available_tools).
Available(tool) == tools_available[tool]

\* The tools the manager holds ready: the web and file search tools when
\* they are configured, the KM connector tool when it is set.
Configured(tool) ==
    CASE tool = "web_search" -> tools_available.web_search
      [] tool = "km_search" -> km_connector_tool # NoneId
      [] OTHER -> tools_available.file_search

\* The tools _execute_tools goes through with.
Selected(tool) == Requested(tool) /\ Configured(tool)

\* C15: _execute_tools produces a ToolResult for a tool only if the tool was
\* requested and is available and configured; a tool not requested or not
\* configured leaves no ToolResult, and with both flags off and no uploaded
\* files no tool is invoked.
C15_OnlySelectedTools ==
    /\ \A i \in 1..Len(pq_results) :
          LET t == pq_results[i].tool_name
          IN Requested(t) /\ Available(t) /\ Configured(t)
    /\ (\A t \in Tools : ~Requested(t)) =>
          pq_results = << >> /\ \A t \in Tools : pq_outcome[t] = "not_started"

FailedTools == {t \in Tools : pq_outcome[t] \in {"raised", "failed"}}

\* C16: a tool that raises or reports failure stops nothing: once the tools
\* are over every selected tool has run and the agent has been called, and
\* the response process_query returns lists, for each tool that failed, an
\* entry with success false and its error, also when every tool failed.
C16_FailureIsolated ==
    /\ pq_pc \in {"agent", "returned", "raised"} =>
          /\ \A t \in Tools : Selected(t) => pq_outcome[t] \in ToolOutcomes
          /\ pq_sent.called
    /\ pq_pc = "returned" =>
          \A t \in FailedTools :
              \E i \in 1..Len(pq_response.tools_used) :
                  pq_response.tools_used[i] =
                      [tool |-> t, success |-> FALSE, error |-> ErrorOf(t, pq_outcome[t])]

\* Every tool was selected and failed, one by raising and one by reporting
\* it, and process_query returned a response.
C16_Witness ==
    /\ pq_pc = "returned"
    /\ \A t \in Tools : Selected(t)
    /\ FailedTools = Tools
    /\ \E t \in Tools : pq_outcome[t] = "raised"
    /\ \E t \in Tools : pq_outcome[t] = "failed"

\* C17: the selected tools are invoked concurrently: while the outbound call
\* of one tool is in flight, every other selected tool has been started too.
C17_ToolsConcurrent ==
    \A a \in Tools, b \in Tools :
        (pq_outcome[a] = "in_flight" /\ Selected(b)) => pq_outcome[b] # "not_started"

HasContext(tool) == pq_outcome[tool] = "context"

\* The contexts of the tools that succeeded with a context, in the order web
\* search, knowledge search, file search.
ExpectedContexts ==
    LET found == SelectSeq(ToolNames, HasContext)
    IN [i \in 1..Len(found) |-> ContextOf(found[i])]

IsContext(line) == line \in ContextTexts

\* C18: the message passed to a conversational agent is the original message
\* when no tool succeeded with a non-empty context; otherwise it holds the raw
\* user message followed by one block, between the header and footer markers,
\* with exactly the contexts of the successful non-empty tool results in the
\* order web search, knowledge search, file search.
C18_PromptContexts ==
    (pq_args.agent = "standard" /\ pq_sent.called) =>
        LET msg == pq_sent.message
        IN IF ExpectedContexts = << >> THEN msg = <<UserMessage>>
           ELSE \E h \in 1..Len(msg), f \in 1..Len(msg) :
                   /\ h < f
                   /\ \A k \in 1..Len(msg) : msg[k] = "=== ADDITIONAL CONTEXT ===" <=> k = h
                   /\ \A k \in 1..Len(msg) : msg[k] = "=== END ADDITIONAL CONTEXT ===" <=> k = f
                   /\ \E k \in 1..(h - 1) : msg[k] = UserMessage
                   /\ SelectSeq(SubSeq(msg, h + 1, f - 1), IsContext) = ExpectedContexts
                   /\ \A k \in 1..Len(msg) : IsContext(msg[k]) => (h < k /\ k < f)

\* A conversational agent was called after all three tools succeeded with a
\* context.
C18_Witness ==
    /\ pq_args.agent = "standard"
    /\ pq_sent.called
    /\ Len(ExpectedContexts) = 3

FilledKeys == {"provider", "model_name", "temperature", "recursion_limit"}

DefaultOf(k) ==
    CASE k = "provider" -> "openai"
      [] k = "temperature" -> "0.0"
      [] k = "recursion_limit" -> "100"
      [] OTHER -> NoneStr

\* C19: a workflow agent is given the original message as its task; the tool
\* results are in the call parameters and not in the text; provider, model,
\* temperature and recursion bound come from the caller's parameters where
\* the caller set them and from the agent's stored configuration otherwise,
\* and every parameter the caller set reaches the workflow unchanged.
C19_WorkflowParameters ==
    (pq_args.agent = "workflow" /\ pq_sent.called) =>
        LET params == pq_sent.parameters
            caller == pq_args.parameters
        IN /\ pq_sent.message = <<UserMessage>>
           /\ ("tool_results" \in DOMAIN params) <=> (pq_results # << >>)
           /\ pq_results # << >> => params["tool_results"] = ToDicts(pq_results)
           /\ \A k \in FilledKeys :
                 /\ k \in DOMAIN params
                 /\ params[k] = IF k \in DOMAIN caller THEN caller[k]
                                ELSE GetOr(pq_args.config, k, DefaultOf(k))
           /\ \A k \in DOMAIN caller :
                 /\ params[k] = caller[k]
                 /\ k \in DOMAIN pq_sent.kwargs /\ pq_sent.kwargs[k] = caller[k]

\* A workflow agent was called with tool results, with a provider the caller
\* set against the one of the stored configuration, and with a temperature
\* only the stored configuration has.
C19_Witness ==
    /\ pq_args.agent = "workflow"
    /\ pq_sent.called
    /\ pq_results # << >>
    /\ "provider" \in (DOMAIN pq_args.parameters) \cap (DOMAIN pq_args.config)
    /\ "temperature" \in (DOMAIN pq_args.config) \ (DOMAIN pq_args.parameters)

\* C20: when the selected agent cannot produce a reply (the conversational
\* agent's model call fails or times out, the workflow ends with status
\* failed), process_query returns no normal response: it raises.
C20_AgentFailurePropagates ==
    pq_agent \in {"error", "failed"} => pq_pc = "raised" /\ pq_response.raised

(***************************************************************************)
(* Chat requests (routers/agents.py) sharing the AgentManager singleton    *)
(* (agent_manager.py).  A request runs without interruption from one await *)
(* that does network I/O to the next.                                      *)
(***************************************************************************)
\* The session whose cookie request r carries (request.state.session).
SessionOf(r) == r

\* AgentManager._execute_tools from the point where the web search, if any,
\* is over: _execute_km_search reads self.km_connector_tool and awaits its
\* search_and_store.
StartKMSearch(r, request, tool) ==
    IF request.enable_km_search /\ tool # NoneId
    THEN /\ req_tool' = [req_tool EXCEPT ![r] = tool]
         /\ req_pc' = [req_pc EXCEPT ![r] = "km_search"]
    ELSE /\ req_pc' = [req_pc EXCEPT ![r] = "agent"]
         /\ UNCHANGED req_tool

\* chat_with_agent: set_km_connector binds the shared manager's tool to an
\* adapter of the request's session, then process_query runs up to the first
\* await of _execute_tools.
chat_with_agent(r) ==
    /\ req_pc[r] = "start"
    /\ \E request \in [enable_web_search : BOOLEAN, enable_km_search : BOOLEAN] :
          /\ req' = [req EXCEPT ![r] = request]
          /\ km_connector_tool' = SessionOf(r)
          /\ IF request.enable_web_search /\ tools_available.web_search
             THEN /\ req_pc' = [req_pc EXCEPT ![r] = "web_search"]
                  /\ UNCHANGED req_tool
             ELSE StartKMSearch(r, request, km_connector_tool')
    /\ UNCHANGED <<tools_available, storeVars, kmVars, restVars>>

\* `await self._execute_web_search(...)` is over.
web_search_done(r) ==
    /\ req_pc[r] = "web_search"
    /\ StartKMSearch(r, req[r], km_connector_tool)
    /\ UNCHANGED <<km_connector_tool, tools_available, req, storeVars, kmVars, restVars>>

\* `await self.km_connector_tool.search_and_store(...)` is over.
km_search_done(r) ==
    /\ req_pc[r] = "km_search"
    /\ req_pc' = [req_pc EXCEPT ![r] = "agent"]
    /\ UNCHANGED <<km_connector_tool, tools_available, req, req_tool,
                   storeVars, kmVars, restVars>>

\* The agent has answered and the response is sent.
chat_response(r) ==
    /\ req_pc[r] = "agent"
    /\ req_pc' = [req_pc EXCEPT ![r] = "start"]
    /\ req' = [req EXCEPT ![r] = NoRequest]
    /\ req_tool' = [req_tool EXCEPT ![r] = NoneId]
    /\ UNCHANGED <<km_connector_tool, tools_available, storeVars, kmVars, restVars>>

(***************************************************************************)
(* SpecChat: two chat requests of different sessions served concurrently.  *)
(***************************************************************************)
InitChat == InitStore /\ InitTool({"file"}) /\ InitManager(BOOLEAN) /\ InitRest

NextChat ==
    \E r \in Requests :
        \/ chat_with_agent(r)
        \/ web_search_done(r)
        \/ km_search_done(r)
        \/ chat_response(r)

SpecChat == InitChat /\ [][NextChat]_vars

(***************************************************************************)
(* Properties of the shared agent manager.                                 *)
(***************************************************************************)
\* C1: while two chat requests of different sessions are served concurrently,
\* the knowledge search of a request runs on a tool that resolves connections
\* and credentials through the adapter of that request's own session, never
\* through another session's.
C1_OwnSessionOnly ==
    \A r \in Requests : req_tool[r] \in {NoneId, SessionOf(r)}

(***************************************************************************)
(* Properties of the session store.                                        *)
(***************************************************************************)
GocCalls == {t \in Threads : pc[t] = "idle" /\ call[t].op = "get_or_create_session"}

\* C2: concurrent get_or_create_session calls for the same unseen id insert
\* exactly one SessionState, with a fresh conversation id, and every call
\* returns that object.  As a property of every step: a session object that is
\* in the table is never replaced by another one (no second allocation), and a
\* get_or_create_session call that returns for a given id returns the object
\* the table holds for that id, whose conversation id, when the call created
\* it, is carried by no other session object.
C2_SingleAllocation ==
    [][ /\ \A sid \in (DOMAIN sessions) \cap (DOMAIN sessions') :
              sessions'[sid] = sessions[sid]
        /\ \A t \in Threads :
              (pc[t] = "goc" /\ pc'[t] = "idle" /\ call[t].sid # NoneId) =>
                  /\ call[t].sid \in DOMAIN sessions'
                  /\ ret'[t] = RetSession(sessions'[call[t].sid])
                  /\ call[t].sid \notin DOMAIN sessions =>
                        \A o \in DOMAIN heap :
                            heap[o].conversation_id #
                                heap'[sessions'[call[t].sid]].conversation_id
      ]_vars

\* Both threads asked for the same id, which one of them created, and both
\* hold the object the table holds for it.
C2_Witness ==
    \E sid \in SessionIds :
        /\ sid \in DOMAIN sessions
        /\ GocCalls = Threads
        /\ \A t \in Threads :
              call[t].sid = sid /\ ret[t] = RetSession(sessions[sid])

\* C3: a pass of _cleanup_expired removes exactly the sessions whose
\* last-activity age, measured from the `now` the pass read, exceeds the TTL,
\* keeps every session whose age is at most the TTL (the same object), adds
\* none, and a get_session for a removed id finds nothing afterwards.
C3_ReaperExact ==
    [][ (reaper_pc = "sweep" /\ reaper_pc' = "sleep") =>
          /\ DOMAIN sessions' \subseteq DOMAIN sessions
          /\ \A sid \in DOMAIN sessions :
                IF reaper_now - heap[sessions[sid]].last_activity > ttl
                THEN sid \notin DOMAIN sessions' /\ DictGet(sessions', sid) = NoneId
                ELSE sid \in DOMAIN sessions' /\ sessions'[sid] = sessions[sid]
      ]_vars

\* The last pass removed a session and kept one whose age was exactly the TTL,
\* and a get_session for the removed id returned None.
C3_Witness ==
    /\ reaper_pc = "sleep"
    /\ reaper_expired # {}
    /\ \E sid \in DOMAIN sessions :
          reaper_now - heap[sessions[sid]].last_activity = ttl
    /\ \E t \in Threads :
          /\ pc[t] = "idle"
          /\ call[t].op = "get_session"
          /\ call[t].sid \in reaper_expired
          /\ call[t].sid \notin DOMAIN sessions
          /\ ret[t] = RetNone

(***************************************************************************)
(* Properties of search_and_store.                                         *)
(***************************************************************************)
ExplicitIds(ids) == ids # NoIds /\ ids # << >>

\* The step by which search_and_store selects its connections.
Selecting == km_pc = "idle" /\ km_pc' # "idle"

\* The step that is one turn of the loop of search_and_store.
Querying == km_pc = "loop" /\ km_i <= Len(km_conns)

\* C6: given explicit connection ids, search_and_store selects for querying
\* only connections that exist and whose stored status is exactly "active",
\* whichever storage the tool works on, and sends requests for no other.
C6_OnlyStoredActive ==
    [][ /\ (Selecting /\ ExplicitIds(km_ids')) =>
              \A k \in 1..Len(km_conns') :
                  /\ km_conns'[k].id \in DOMAIN km_store
                  /\ km_store[km_conns'[k].id].status = "active"
        /\ (Querying /\ ExplicitIds(km_ids)) =>
              /\ km_conns' = km_conns
              /\ km_conns[km_i].id \in {km_ids[k] : k \in 1..Len(km_ids)} \cap DOMAIN km_store
      ]_vars

C8_FailureStored ==
    km_pc = "done" =>
        \A k \in 1..Len(km_errors) :
            /\ km_store[km_errors[k].connection_id].status = "error"
            /\ km_store[km_errors[k].connection_id].last_error # NoneStr

\* C9: when search_and_store returns, no connection for which the backend
\* answered a collection or corpus query with an authentication error has a
\* client in the cache that was built before that answer.
C9_RejectedClientDropped ==
    km_pc = "done" =>
        \A k \in 1..Len(km_answers) :
            "KMAuthenticationError" \in km_answers[k] =>
                \/ km_conns[k].id \notin DOMAIN km_clients
                \/ ~km_clients[km_conns[k].id].rejected

\* C11: when search_and_store returns, a selected connection with both
\* selection lists empty has contributed zero results and has no entry in the
\* error list.
C11_EmptySelectionSilent ==
    km_pc = "done" =>
        \A k \in 1..Len(km_conns) :
            ~HasSelections(km_conns[k]) =>
                /\ \A e \in 1..Len(km_errors) :
                      km_errors[e].connection_id # km_conns[k].id
                /\ \A r \in 1..Len(km_results) :
                      km_results[r].connection_id = km_conns[k].id =>
                          km_results[r].results_count = 0

\* The selection holds different connections, the one at position k was
\* refused by the backend and every other one was answered without any error.
OnlyAuthFailure(k) ==
    /\ \A i, j \in 1..Len(km_conns) : km_conns[i].id = km_conns[j].id => i = j
    /\ km_answers[k] = {"KMAuthenticationError"}
    /\ \A j \in (1..Len(km_answers)) \ {k} :
          /\ km_answers[j] \subseteq {"ok"}
          /\ \E r \in 1..Len(km_results) :
                km_results[r].connection_id = km_conns[j].id

\* C10: for a non-empty selection the aggregate counts the selected
\* connections and those that produced a result, partial_failure says that
\* some connection failed and some succeeded, and when exactly one of N > 1
\* connections fails authentication while the others succeed,
\* partial_failure is true, connections_queried is N and results is
\* non-empty.
C10_Aggregate ==
    (km_pc = "done" /\ km_conns # << >>) =>
        /\ km_out.connections_queried = Len(km_conns)
        /\ km_out.connections_successful = Len(km_results)
        /\ km_out.partial_failure = (Len(km_errors) > 0 /\ Len(km_results) > 0)
        /\ \A k \in 1..Len(km_answers) :
              (Len(km_conns) > 1 /\ OnlyAuthFailure(k)) =>
                  /\ km_out.partial_failure
                  /\ km_out.connections_queried = Len(km_conns)
                  /\ km_out.results # << >>

(***************************************************************************)
(* Properties of the methods working on a session's collections.           *)
(***************************************************************************)
Accessors ==
    {"add_km_connection", "get_km_connections", "get_km_connection",
     "update_km_connection", "delete_km_connection",
     "add_custom_endpoint", "get_custom_endpoints", "get_custom_endpoint",
     "delete_custom_endpoint",
     "set_agent_config_override", "get_agent_config_override",
     "clear_agent_config_override"}

AfterLookup == {"insert", "read_all", "read_item", "check"}

\* The calling thread t took a step that started (and, for get_session and for
\* a missing session, completed) a method.
Called(t) == pc[t] = "idle" /\ <<pc'[t], call'[t], ret'[t]>> # <<pc[t], call[t], ret[t]>>

\* C4: every lookup that finds an existing session sets its last_activity to
\* the current time: the get_session a collection accessor starts with,
\* get_or_create_session on a known id, and get_session itself; and the
\* last_activity of a session object never decreases.
C4_LookupRefreshes ==
    [][ /\ \A t \in Threads :
              /\ (pc[t] = "idle" /\ pc'[t] \in AfterLookup) =>
                    /\ call'[t].op \in Accessors
                    /\ ref'[t] = sessions[call'[t].sid]
                    /\ heap'[ref'[t]].last_activity = clock
              /\ (pc[t] = "goc" /\ pc'[t] = "idle" /\ ref[t] # NoneId) =>
                    /\ ref[t] \in DOMAIN heap'
                    /\ heap'[ref[t]].last_activity = clock
              /\ (Called(t) /\ pc'[t] = "idle" /\ call'[t].op = "get_session"
                    /\ call'[t].sid \in DOMAIN sessions) =>
                    heap'[sessions[call'[t].sid]].last_activity = clock
              /\ (Called(t) /\ call'[t].op \in Accessors
                    /\ call'[t].sid \in DOMAIN sessions) => pc'[t] \in AfterLookup
        /\ \A o \in (DOMAIN heap) \cap (DOMAIN heap') :
              heap'[o].last_activity >= heap[o].last_activity
      ]_vars

\* An accessor returned for a session that was created earlier, and the
\* session's last_activity is the current time.
C4_Witness ==
    \E t \in Callers :
        /\ pc[t] = "idle"
        /\ call[t].op = "get_agent_config_override"
        /\ call[t].sid \in DOMAIN sessions
        /\ heap[sessions[call[t].sid]].created_at < clock
        /\ heap[sessions[call[t].sid]].last_activity = clock

ItemOps ==
    {"get_km_connection", "update_km_connection", "delete_km_connection",
     "get_custom_endpoint", "delete_custom_endpoint",
     "get_agent_config_override", "clear_agent_config_override"}

ListOps == {"get_km_connections", "get_custom_endpoints"}

\* The not-found value the claim names for a method.
Absent(op) ==
    CASE op \in ListOps -> Ret("list", {})
      [] op \in {"get_session", "get_km_connection", "get_custom_endpoint",
                 "get_agent_config_override"} -> Ret("None", {})
      [] OTHER -> Ret("False", {})

\* A step that starts a method on a session id the table does not hold.
MissingSession(t) ==
    /\ Called(t)
    /\ call'[t].op \in ItemOps \cup ListOps \cup {"get_session"}
    /\ call'[t].sid \notin DOMAIN sessions

\* A step that starts a get, update or delete of an item id which the session,
\* found in the table, does not hold.
MissingItemLookup(t) ==
    /\ Called(t)
    /\ call'[t].op \in ItemOps
    /\ call'[t].sid \in DOMAIN sessions
    /\ call'[t].item \notin DOMAIN heap[sessions[call'[t].sid]][Collection(call'[t].op)]

\* The step by which such a method finds the item missing and returns.
MissingItemReturn(t) ==
    /\ pc[t] \in {"read_item", "check"}
    /\ pc'[t] # pc[t]
    /\ call[t].item \notin DOMAIN Coll(t)

SameTable == sessions' = sessions /\ nextConv' = nextConv

SameObjects == \A o \in DOMAIN heap : o \in DOMAIN heap' => heap'[o] = heap[o]

\* Every object is as before but for the last_activity of the session `obj`.
SameButActivity(obj) ==
    \A o \in DOMAIN heap :
        o \in DOMAIN heap' =>
            IF o = obj
            THEN heap'[o] = [heap[o] EXCEPT !.last_activity = heap'[o].last_activity]
            ELSE heap'[o] = heap[o]

\* C5 as stated: get_session and every get, update and delete of an item,
\* given a session id or an item id that does not exist, returns the not-found
\* value without raising, creates no session and leaves the store unchanged.
C5_NotFoundLeavesStore ==
    [][ \A t \in Threads :
          /\ MissingSession(t) =>
                ret'[t] = Absent(call'[t].op) /\ SameTable /\ SameObjects
          /\ MissingItemLookup(t) =>
                ret'[t].tag # "raised" /\ SameTable /\ SameObjects
          /\ MissingItemReturn(t) =>
                ret'[t] = Absent(call[t].op) /\ SameTable /\ SameObjects
      ]_vars

\* C5 as amended: the same, but when the session exists and only the item is
\* missing, the get_session the method starts with refreshes that session's
\* last_activity; nothing else of the store changes.
C5_NotFoundKeepsContent ==
    [][ \A t \in Threads :
          /\ MissingSession(t) =>
                ret'[t] = Absent(call'[t].op) /\ SameTable /\ SameObjects
          /\ MissingItemLookup(t) =>
                /\ ret'[t].tag # "raised"
                /\ SameTable
                /\ SameButActivity(sessions[call'[t].sid])
          /\ MissingItemReturn(t) =>
                ret'[t] = Absent(call[t].op) /\ SameTable /\ SameObjects
      ]_vars

\* delete_km_connection returned False for an item its session does not
\* hold, and the lookup refreshed a session that was created earlier.
C5_Witness ==
    \E t \in Callers :
        /\ pc[t] = "idle"
        /\ call[t].op = "delete_km_connection"
        /\ ret[t] = Ret("False", {})
        /\ call[t].sid \in DOMAIN sessions
        /\ call[t].item \notin DOMAIN heap[sessions[call[t].sid]].km_connections
        /\ heap[sessions[call[t].sid]].created_at
              < heap[sessions[call[t].sid]].last_activity

(***************************************************************************)
(* Expiry at lookup.                                                       *)
(***************************************************************************)
\* C28: a session whose last-activity age exceeds the TTL is never returned
\* by get_session or get_or_create_session, also when the reaper has not run
\* yet: a call that returns a session object that existed before returns one
\* whose age, before the call refreshed it, was at most the TTL.
C28_ExpiredNeverReturned ==
    [][ \A t \in Threads :
          (ret'[t] # ret[t] /\ ret'[t].tag = "session") =>
              \A o \in ret'[t].val \cap DOMAIN heap :
                  clock - heap[o].last_activity <= ttl
      ]_vars

(***************************************************************************)
(* SpecRace: two threads working on the collections of one session that    *)
(* holds a connection, an endpoint and an override.                        *)
(***************************************************************************)
\* The store after get_or_create_session, add_km_connection,
\* add_custom_endpoint and set_agent_config_override for session 1, item 1.
InitFilled ==
    /\ clock = 0
    /\ sessions = Put(EmptyMap, 1, 1)
    /\ heap = Put(EmptyMap, 1,
                  [SessionState(1, 0) EXCEPT
                      !.km_connections = Put(EmptyMap, 1, SessionKMConnection(1)),
                      !.custom_endpoints = Put(EmptyMap, 1, [id |-> 1]),
                      !.agent_config_overrides = Put(EmptyMap, 1, [id |-> 1])])
    /\ lock = NoneId
    /\ nextConv = 1
    /\ pc = [t \in Threads |-> "idle"]
    /\ call = [t \in Threads |-> Call("none", NoneId, NoneId, EmptyMap)]
    /\ ref = [t \in Threads |-> NoneId]
    /\ ret = [t \in Threads |-> RetNone]
    /\ reaper_pc = "sleep"
    /\ reaper_now = 0
    /\ reaper_expired = {}

InitRace == InitFilled /\ InitTool({"file"}) /\ InitManager({FALSE}) /\ InitRest

RaceStep(t) ==
    \/ get_or_create_session_enter(t, {1})
    \/ get_or_create_session_body(t)
    \/ delete_session(t)
    \/ add_km_connection(t)
    \/ update_km_connection(t)
    \/ delete_km_connection(t)
    \/ delete_custom_endpoint(t)
    \/ clear_agent_config_override(t)
    \/ locked_insert(t)
    \/ check_item(t)
    \/ unlocked_update(t)
    \/ locked_delete(t)

NextRace == \E t \in Threads : RaceStep(t)

SpecRace == InitRace /\ [][NextRace]_vars

\* C23: every mutation of a collection a session owns, or of the fields of a
\* connection in it, is made while holding the SessionManager lock, in the
\* critical section that checked existence: no other thread holds the lock
\* when the mutation is made, and the session mutated is the one the table
\* holds for the id.
C23_MutationsLocked ==
    [][ \A t \in Threads :
          (pc[t] \in {"insert", "update", "delete"} /\ pc'[t] = "idle"
             /\ ret'[t] = RetTrue) =>
              /\ lock = NoneId
              /\ DictGet(sessions, call[t].sid) = ref[t]
      ]_vars

DeleteOps == {"delete_km_connection", "delete_custom_endpoint", "clear_agent_config_override"}

\* C29: concurrent delete_km_connection, delete_custom_endpoint or
\* clear_agent_config_override calls for the same item never raise: a call
\* returns True when it removed the item and False otherwise, so of two calls
\* for one existing item one returns True and the other False.
C29_ConcurrentDelete ==
    [][ \A t \in Threads :
          (call[t].op \in DeleteOps /\ pc[t] \in {"check", "delete"} /\ pc'[t] = "idle") =>
              /\ ret'[t] \in {RetTrue, RetFalse}
              /\ ret'[t] = RetTrue <=>
                    /\ call[t].item \in DOMAIN heap[ref[t]][Collection(call[t].op)]
                    /\ ref[t] \in DOMAIN heap' =>
                          call[t].item \notin DOMAIN heap'[ref[t]][Collection(call[t].op)]
      ]_vars

(***************************************************************************)
(* ProgressTracker (progress_manager.py): a dictionary of tasks behind a   *)
(* threading.Lock, which a thread that holds it cannot take again.         *)
(***************************************************************************)
TaskIds == {1}

\* The progress values callers pass: a failure, a step, completion.
Progresses == {-1, 50, 100}

\* The task create_task stores.
NewTask == [progress |-> 0, status |-> "running", message |-> "Initializing..."]

\* What a get_progress call returned: None or the task.
NoTask == [progress |-> 0, status |-> NoneStr, message |-> NoneStr]

\* The body of update_progress once the task is there.
Recorded(task, progress, message) ==
    [progress |-> progress,
     status |-> IF progress >= 100 THEN "completed"
                ELSE IF progress < 0 THEN "failed" ELSE task.status,
     message |-> IF message # NoneStr THEN message ELSE task.message]

TrackerCall(op, task_id, progress) == [op |-> op, task_id |-> task_id, progress |-> progress]

\* A locked block of one statement: the lock is taken and left in the step.
TrackerBlock(t, c, tasks, r) ==
    /\ pt_pc[t] = "idle"
    /\ pt_lock = NoneId
    /\ pt_tasks' = tasks
    /\ pt_ret' = [pt_ret EXCEPT ![t] = r]
    /\ UNCHANGED <<pt_lock, pt_pc, pt_call, ptOthers>>

create_task(t) ==
    \E id \in TaskIds :
        TrackerBlock(t, TrackerCall("create_task", id, 0), Put(pt_tasks, id, NewTask), pt_ret[t])

get_progress(t) ==
    \E id \in TaskIds :
        TrackerBlock(t, TrackerCall("get_progress", id, 0), pt_tasks,
                     IF id \in DOMAIN pt_tasks THEN pt_tasks[id] ELSE NoTask)

fail_task(t) ==
    \E id \in TaskIds :
        TrackerBlock(t, TrackerCall("fail_task", id, 0),
                     IF id \in DOMAIN pt_tasks
                     THEN [pt_tasks EXCEPT ![id].status = "failed", ![id].message = "error"]
                     ELSE pt_tasks,
                     pt_ret[t])

remove_task(t) ==
    \E id \in TaskIds :
        TrackerBlock(t, TrackerCall("remove_task", id, 0),
                     IF id \in DOMAIN pt_tasks THEN Del(pt_tasks, id) ELSE pt_tasks,
                     pt_ret[t])

\* update_progress, or complete_task calling it with progress 100, enters
\* `with self._lock`.
update_progress(t) ==
    \E id \in TaskIds, progress \in Progresses, op \in {"update_progress", "complete_task"} :
        /\ op = "complete_task" => progress = 100
        /\ pt_pc[t] = "idle"
        /\ pt_lock = NoneId
        /\ pt_lock' = t
        /\ pt_call' = [pt_call EXCEPT ![t] = TrackerCall(op, id, progress)]
        /\ pt_pc' = [pt_pc EXCEPT ![t] = "update"]
        /\ UNCHANGED <<pt_tasks, pt_ret, ptOthers>>

\* The body of update_progress under the lock.  For a task that is not there
\* it calls self.create_task, whose `with self._lock` waits until the lock
\* is free.
update_progress_body(t) ==
    /\ pt_pc[t] = "update"
    /\ LET id == pt_call[t].task_id
           message == IF pt_call[t].op = "complete_task" THEN "Completed" ELSE NoneStr
       IN IF id \in DOMAIN pt_tasks \/ pt_lock = NoneId
          THEN /\ pt_tasks' = Put(pt_tasks, id,
                                  Recorded(IF id \in DOMAIN pt_tasks THEN pt_tasks[id]
                                           ELSE NewTask,
                                           pt_call[t].progress, message))
               /\ pt_lock' = NoneId
               /\ pt_pc' = [pt_pc EXCEPT ![t] = "idle"]
          ELSE /\ pt_pc' = [pt_pc EXCEPT ![t] = "blocked"]
               /\ UNCHANGED <<pt_tasks, pt_lock>>
    /\ UNCHANGED <<pt_call, pt_ret, ptOthers>>

TrackerStep(t) ==
    \/ create_task(t)
    \/ get_progress(t)
    \/ fail_task(t)
    \/ remove_task(t)
    \/ update_progress(t)
    \/ update_progress_body(t)

(***************************************************************************)
(* SpecTracker: a thread calling the global ProgressTracker.               *)
(***************************************************************************)
InitProgress ==
    /\ InitStore /\ InitTool({"file"}) /\ InitManager({FALSE})
    /\ InitRest

NextTracker == \E t \in Callers : TrackerStep(t)

SpecTracker == InitProgress /\ [][NextTracker]_vars

\* C27: update_progress, and complete_task which calls it, called with a task
\* id that was never created terminates: it never blocks on the tracker's
\* own lock, and when it returns the task exists with the progress recorded.
C27_UpdateTerminates ==
    [][ \A t \in Threads :
          pt_pc[t] = "update" =>
              /\ pt_pc'[t] \in {"update", "idle"}
              /\ pt_pc'[t] = "idle" =>
                    /\ pt_call[t].task_id \in DOMAIN pt_tasks'
                    /\ pt_tasks'[pt_call[t].task_id].progress = pt_call[t].progress
      ]_vars

(***************************************************************************)
(* OpenAIAgent and EndpointAgent: query() up to the await of the model     *)
(* call, and from that await to its return.  A history is a list object:   *)
(* a request keeps the one it read before the await, and trimming stores a *)
(* new one under the conversation id.                                      *)
(***************************************************************************)
MaxCalls == 3

ConversationIds == {"c1"}

MaxHistories == {0, 1, 2}

ListIds == 1..(Cardinality(ConversationIds) + Cardinality(Requests) + 1)

OwnSystemMessage == "agent system message"

\* Mutant of Ready: the state of the agent is not looked at.
Ready_unchecked(initialized, client) == TRUE

\* `if not self._initialized or not self.client: raise RuntimeError(...)`
Ready(initialized, client) == initialized /\ client

\* The keyword system_message that _prepare_messages is called with:
\* EndpointAgent.query reads it from its parameters; OpenAIAgent.query hands
\* over its own keyword system_message, which _query_standard_agent leaves out.
QuerySystemMessage(kind, parameters) ==
    IF kind = "endpoint" THEN GetOr(parameters, "system_message", NoneStr) ELSE NoneStr

\* `system_message or self.system_message` of _prepare_messages.
_prepare_messages(system_message) ==
    IF system_message \notin {NoneStr, ""} THEN system_message ELSE OwnSystemMessage

\* Mutant of Appended: the user entry alone is stored.
Appended_user_only(history, turn) ==
    Append(history, [role |-> "user", turn |-> turn])

\* The two append calls that follow the model call.
Appended(history, turn) ==
    history \o <<[role |-> "user", turn |-> turn], [role |-> "assistant", turn |-> turn]>>

\* history[-k:] of Python for k >= 0: -0 is 0, so for k = 0 the whole list.
Slice(history, k) ==
    IF k = 0 THEN history
    ELSE SubSeq(history, Max(1, Len(history) - k + 1), Len(history))

NewList(lists) == CHOOSE n \in ListIds \ DOMAIN lists : \A m \in ListIds \ DOMAIN lists : n <= m

\* The parameters _query_standard_agent calls agent.query with, for tool
\* results with or without a context.
AgentParameters ==
    {StandardCall(NoArgs, Wrapped(<< >>, "web_search", outcome)).parameters :
        outcome \in {"empty", "context"}}

\* How the model call may end: a reply, a completion whose content is None,
\* or an exception (a timeout, a connection error, no choices).
ModelOutcomes == {"reply", "empty", "error"}

\* initialize(): the client is built and _initialized set, or the
\* constructor raises and initialize returns False.
initialize ==
    /\ \E built \in BOOLEAN :
          /\ ag_client' = (ag_client \/ built)
          /\ ag_initialized' = (ag_initialized \/ built)
    /\ UNCHANGED <<ag_kind, ag_max, ag_conversations, ag_lists, ag_pc, ag_req, ag_ret,
                   ag_calls, agOthers>>

\* cleanup(): the client is closed and _initialized reset; EndpointAgent
\* clears its conversations as well.
cleanup ==
    /\ ag_initialized' = FALSE
    /\ ag_conversations' = IF ag_kind = "endpoint" THEN EmptyMap ELSE ag_conversations
    /\ ag_lists' = Collect(ag_lists, ag_conversations', [r \in Requests |-> ag_req[r].history])
    /\ UNCHANGED <<ag_kind, ag_max, ag_client, ag_pc, ag_req, ag_ret, ag_calls, agOthers>>

\* query() up to `await self.client.chat.completions.create(...)`.
query(r) ==
    /\ ag_pc[r] = "idle"
    /\ ag_calls < MaxCalls
    /\ \E cid \in ConversationIds, parameters \in AgentParameters, message \in {"", "message"} :
          IF \/ ~Ready(ag_initialized, ag_client)
             \/ (ag_kind = "endpoint" /\ message = "")
          THEN /\ ag_ret' = [ag_ret EXCEPT ![r] = [tag |-> "raised", turn |-> ag_calls,
                                                   trimmed |-> FALSE]]
               /\ UNCHANGED <<ag_conversations, ag_lists, ag_pc, ag_req, ag_calls>>
          ELSE LET lists == IF cid \in DOMAIN ag_conversations THEN ag_lists
                            ELSE Put(ag_lists, NewList(ag_lists), << >>)
                   history == IF cid \in DOMAIN ag_conversations THEN ag_conversations[cid]
                              ELSE NewList(ag_lists)
               IN /\ ag_conversations' = Put(ag_conversations, cid, history)
                  /\ ag_lists' = lists
                  /\ ag_req' = [ag_req EXCEPT ![r] =
                                   [conversation_id |-> cid,
                                    parameters |-> parameters,
                                    history |-> history,
                                    turn |-> ag_calls + 1,
                                    system |-> _prepare_messages(
                                                   QuerySystemMessage(ag_kind, parameters))]]
                  /\ ag_calls' = ag_calls + 1
                  /\ ag_pc' = [ag_pc EXCEPT ![r] = "awaiting"]
                  /\ UNCHANGED ag_ret
    /\ UNCHANGED <<ag_kind, ag_max, ag_initialized, ag_client, agOthers>>

\* query() from the end of the await to its return or raise.  A completion
\* without content is refused by EndpointAgent before the history is touched;
\* OpenAIAgent stores it and fails at response_text.strip().
respond(r) ==
    /\ ag_pc[r] = "awaiting"
    /\ \E outcome \in ModelOutcomes :
          LET q == ag_req[r]
              stored == outcome = "reply" \/ (outcome = "empty" /\ ag_kind = "openai")
              history == Appended(ag_lists[q.history], q.turn)
              trimmed == stored /\ Len(history) > ag_max * 2
              lists1 == IF stored THEN [ag_lists EXCEPT ![q.history] = history] ELSE ag_lists
              lists2 == IF trimmed
                        THEN Put(lists1, NewList(lists1), Slice(history, ag_max * 2))
                        ELSE lists1
          IN /\ ag_conversations' = IF trimmed
                                    THEN Put(ag_conversations, q.conversation_id, NewList(lists1))
                                    ELSE ag_conversations
             /\ ag_req' = [ag_req EXCEPT ![r].history = NoneId]
             /\ ag_lists' = Collect(lists2, ag_conversations',
                                    [x \in Requests |-> ag_req'[x].history])
             /\ ag_ret' = [ag_ret EXCEPT ![r] =
                              [tag |-> IF outcome = "reply" THEN "reply" ELSE "failed",
                               turn |-> q.turn, trimmed |-> trimmed]]
             /\ ag_pc' = [ag_pc EXCEPT ![r] = "idle"]
    /\ UNCHANGED <<ag_kind, ag_max, ag_initialized, ag_client, ag_calls, agOthers>>

(***************************************************************************)
(* SpecAgent: two requests on one conversational agent.                    *)
(***************************************************************************)
InitConversation ==
    /\ InitStore /\ InitTool({"file"}) /\ InitManager({FALSE})
    /\ InitResults({1}, {<< >>}) /\ InitContext({<< >>}, {0}) /\ InitCall({NoArgs})
    /\ InitTracker
    /\ InitAgent({"openai", "endpoint"}, MaxHistories)
    /\ InitCleanupTask({"running"})

NextAgent ==
    \/ initialize
    \/ cleanup
    \/ \E r \in Requests : query(r) \/ respond(r)

SpecAgent == InitConversation /\ [][NextAgent]_vars

\* The history stored for a conversation id.
History(cid) == ag_lists[ag_conversations[cid]]

\* C21: for every max_history_messages >= 0, the history stored for a
\* conversation never has more than 2 x max_history_messages entries.
C21_HistoryCapped ==
    \A cid \in DOMAIN ag_conversations : Len(History(cid)) <= 2 * ag_max

\* C30: every stored history is made of complete pairs: its length is even
\* and its entries are user, assistant, user, assistant, ...
C30_CompletePairs ==
    \A cid \in DOMAIN ag_conversations :
        /\ Len(History(cid)) % 2 = 0
        /\ \A i \in 1..Len(History(cid)) :
              History(cid)[i].role = IF i % 2 = 1 THEN "user" ELSE "assistant"

\* Two requests on the same conversation id were interleaved at the model
\* call (the one that called first was stored last) and the history was
\* trimmed to the last pair.
C30_Witness ==
    /\ \E cid \in DOMAIN ag_conversations :
          /\ Len(History(cid)) = 2
          /\ ag_max = 1
          /\ History(cid)[1].turn = 2
    /\ ag_ret[1] = [tag |-> "reply", turn |-> 2, trimmed |-> TRUE]
    /\ ag_ret[2].tag = "reply" /\ ag_ret[2].turn = 3 /\ ag_pc[2] = "idle"

\* C22: while the agent is not initialized no query reaches the model: no
\* request starts awaiting, no model call is made, and a query made then
\* raises; and a query that fails at the model call leaves _initialized and
\* the client as they were.
C22_OnlyWhileInitialized ==
    [][ /\ ~(ag_initialized /\ ag_client) =>
              /\ ag_calls' = ag_calls
              /\ \A r \in Requests :
                    /\ ag_pc[r] = "idle" => ag_pc'[r] = "idle"
                    /\ (ag_pc[r] = "idle" /\ ag_ret'[r] # ag_ret[r]) => ag_ret'[r].tag = "raised"
        /\ \A r \in Requests :
              (ag_pc[r] = "awaiting" /\ ag_ret'[r].tag = "failed" /\ ag_pc'[r] = "idle") =>
                  /\ ag_initialized' = ag_initialized
                  /\ ag_client' = ag_client
      ]_vars

\* The first model call of the agent failed, and a later query on the same
\* agent, still initialized, got its reply.
C22_Witness ==
    /\ ag_initialized /\ ag_client
    /\ ag_ret[1] = [tag |-> "failed", turn |-> 1, trimmed |-> FALSE]
    /\ ag_ret[2].tag = "reply" /\ ag_ret[2].turn = 2

\* C25: when a tool result contributed a context, the system message of the
\* model call is the system instruction _query_standard_agent put into the
\* parameters, for an OpenAIAgent as for an EndpointAgent.
C25_SystemInstructionUsed ==
    \A r \in Requests :
        (ag_pc[r] = "awaiting" /\ "system_message" \in DOMAIN ag_req[r].parameters) =>
            ag_req[r].system = ag_req[r].parameters["system_message"]

(***************************************************************************)
(* SessionManager.start_cleanup_task, stop_cleanup_task and _cleanup_loop: *)
(* the loop sleeps, runs _cleanup_expired, and logs an exception of a pass *)
(* before it sleeps again; CancelledError, raised at the sleep, ends it.   *)
(***************************************************************************)
MaxErrors == 2

\* Mutant of AfterError: an exception of a pass ends the loop.
AfterError_stopped(task) == "stopped"

\* `except Exception as e: logger.error(...)`: the loop goes on.
AfterError(task) == task

\* lifespan calls it once, at startup.
start_cleanup_task ==
    /\ rp_task = "not_started"
    /\ rp_task' = "running"
    /\ UNCHANGED <<rp_errors, storeVars, rpOthers>>

\* lifespan calls it at shutdown: the task is cancelled at its sleep.
stop_cleanup_task ==
    /\ rp_task = "running"
    /\ rp_task' = "cancelled"
    /\ UNCHANGED <<rp_errors, storeVars, rpOthers>>

\* `await asyncio.sleep(3600)` of a running task is over.
cleanup_wake ==
    /\ rp_task = "running"
    /\ cleanup_read_now

\* _cleanup_expired raises inside its locked block, before the first del:
\* the lock is left, the error logged, and the loop is back at its sleep.
cleanup_raises ==
    /\ reaper_pc = "sweep"
    /\ Acquirable(NoneId)
    /\ rp_errors < MaxErrors
    /\ rp_errors' = rp_errors + 1
    /\ rp_task' = AfterError(rp_task)
    /\ reaper_expired' = {}
    /\ reaper_pc' = "sleep"
    /\ UNCHANGED <<clock, sessions, heap, lock, nextConv, pc, call, ref, ret, reaper_now,
                   rpOthers>>

(***************************************************************************)
(* SpecReaper: one caller creating and looking up a session while the     *)
(* cleanup task is started, runs and is cancelled.  A sleep that is over   *)
(* is noticed, a pass that finds the lock free again and again gets it,    *)
(* and a caller inside get_or_create_session leaves it.                    *)
(***************************************************************************)
InitReaper ==
    /\ InitStore /\ InitTool({"file"}) /\ InitManager({FALSE})
    /\ InitResults({1}, {<< >>}) /\ InitContext({<< >>}, {0}) /\ InitCall({NoArgs})
    /\ InitTracker
    /\ InitAgent({"openai"}, {1})
    /\ InitCleanupTask({"not_started"})

NextReaper ==
    \/ Tick
    \/ start_cleanup_task
    \/ stop_cleanup_task
    \/ cleanup_wake
    \/ cleanup_sweep
    \/ cleanup_raises
    \/ \E t \in Callers :
          \/ get_or_create_session_enter(t, CreatedIds)
          \/ get_or_create_session_body(t)
          \/ get_session(t)

SpecReaper ==
    /\ InitReaper /\ [][NextReaper]_vars
    /\ WF_vars(cleanup_wake)
    /\ SF_vars(cleanup_sweep)
    /\ \A t \in Callers : WF_vars(get_or_create_session_body(t))

\* The session is in the store and older than the TTL.
ExpiredNow(sid) == sid \in Expired(sessions, heap, clock)

\* C26: while the cleanup task runs, a session that is past its TTL is
\* eventually removed (or looked up again, or the task cancelled), whatever
\* passes raised before: the loop is never ended by the exception of a pass.
C26_ReaperKeepsRunning ==
    \A sid \in SessionIds :
        (rp_task = "running" /\ ExpiredNow(sid)) ~> (~ExpiredNow(sid) \/ rp_task = "cancelled")

\* A pass raised, and a later pass of the same task removed session 1.
C26_Witness ==
    /\ rp_task = "running"
    /\ rp_errors >= 1
    /\ reaper_expired = {1}
    /\ 1 \notin DOMAIN sessions

\* C24: a process_query that returns, for a workflow agent as for a
\* conversational one, returns a dictionary holding the reply text, the
\* conversation id that was used (the generated one when the caller gave
\* none) and a metadata map, which are the entries chat_with_agent reads.
C24_ResponseComplete ==
    (pq_pc = "returned" /\ pq_agent \in {"reply", "completed"}) =>
        /\ {"response", "conversation_id", "metadata"} \subseteq pq_response.keys
        /\ pq_response.response # NoneStr
        /\ pq_response.conversation_id = ConversationId(pq_args)

====
